---- MODULE Spec2Model ----
(***************************************************************************)
(* Confidential-computation dispatch and settlement of the private-defi    *)
(* programs: the encrypted circuits (encrypted-ixs), and the three on-chain*)
(* programs private_swap, dark_pool and private_pay that queue a           *)
(* computation and settle its signed result in a callback.                 *)
(*                                                                         *)
(* The Arcium substrate (queue_computation, the #[arcium_callback] entry   *)
(* check and SignedComputationOutputs::verify_output) is a dependency of   *)
(* the programs; it is modelled at its interface (spec sections 4.2, 4.3). *)
(***************************************************************************)
EXTENDS Integers, Sequences, FiniteSets, TLC

VARIABLES
    cluster_key,       \* the public key currently registered in the cluster account
    pool,              \* the SwapPool account of private_swap (or NoAccount)
    order_book,        \* the OrderBook account of dark_pool (or NoAccount)
    balance_accounts,  \* payer -> PrivateBalanceAccount of private_pay (or NoAccount)
    wallet,            \* payer -> lamports held by the payer
    computations,      \* computation-account address -> pending computation (or NoAccount)
    events,            \* the events emitted so far, in order
    last,              \* the instruction executed last, with its inputs and its result
    ntx,               \* number of instructions that have taken effect
    deployed,          \* the program this cluster has deployed
    q,                 \* inputs and revealed outputs of one circuit evaluation (circuit specs)
    token_accounts     \* the user's and the pool's token accounts of private_swap

vars == <<cluster_key, pool, order_book, balance_accounts, wallet,
          computations, events, last, ntx, deployed, q, token_accounts>>

protocolVars == <<cluster_key, pool, order_book, balance_accounts, wallet,
                  computations, events, last, ntx, deployed, token_accounts>>

----------------------------------------------------------------------------
(* Bounds of the model                                                     *)

MaxTx == 4            \* instructions that take effect in a behaviour
Offsets == {1, 2}     \* computation offsets of each program
ClusterKeys == {1, 2} \* keys the cluster account holds, in order of rotation
AttackerKey == 0      \* a signing key that is not a cluster key

Payers == {"alice", "bob"}
Programs == {"private_swap", "dark_pool", "private_pay"}

BPS_DENOMINATOR == 10000

NoAccount == [exists |-> FALSE]
NoOutput == [none |-> TRUE]
NoQuote == [circuit |-> "none"]

----------------------------------------------------------------------------
(* Arithmetic at the width of a u64.  A u64 is its eight little-endian
   bytes; a natural number of any size is a sequence of bytes, least
   significant first.                                                      *)

RECURSIVE to_le_bytes(_, _)
\* The `len` low bytes of the number n.
to_le_bytes(n, len) ==
    IF len = 0 THEN << >> ELSE <<n % 256>> \o to_le_bytes(n \div 256, len - 1)

RECURSIVE NatMulSmall(_, _, _)
\* x * k + carry over the naturals, for a factor k below 2^16.
NatMulSmall(x, k, carry) ==
    IF x = << >> THEN to_le_bytes(carry, 3)
    ELSE LET t == Head(x) * k + carry
         IN  <<t % 256>> \o NatMulSmall(Tail(x), k, t \div 256)

RECURSIVE NatDivSmall(_, _)
\* Quotient and remainder of x by a divisor d below 2^16.
NatDivSmall(x, d) ==
    IF x = << >> THEN [quot |-> << >>, rem |-> 0]
    ELSE LET high == NatDivSmall(Tail(x), d)
             t == high.rem * 256 + Head(x)
         IN  [quot |-> <<t \div d>> \o high.quot, rem |-> t % d]

RECURSIVE NatAdd(_, _, _)
\* x + y + carry over the naturals.
NatAdd(x, y, carry) ==
    IF x = << >> /\ y = << >> THEN <<carry>>
    ELSE LET a == IF x = << >> THEN 0 ELSE Head(x)
             b == IF y = << >> THEN 0 ELSE Head(y)
             t == a + b + carry
         IN  <<t % 256>> \o NatAdd(IF x = << >> THEN << >> ELSE Tail(x),
                                   IF y = << >> THEN << >> ELSE Tail(y), t \div 256)

RECURSIVE NatSub(_, _, _)
\* x - y - borrow over the naturals, for y + borrow <= x, in the bytes of x.
NatSub(x, y, borrow) ==
    IF x = << >> THEN << >>
    ELSE LET b == IF y = << >> THEN 0 ELSE Head(y)
             t == Head(x) - b - borrow
         IN  <<IF t < 0 THEN t + 256 ELSE t>>
                \o NatSub(Tail(x), IF y = << >> THEN << >> ELSE Tail(y),
                          IF t < 0 THEN 1 ELSE 0)

RECURSIVE NatMul(_, _)
\* x * y over the naturals.
NatMul(x, y) ==
    IF y = << >> THEN << >>
    ELSE IF Head(y) = 0 THEN <<0>> \o NatMul(x, Tail(y))
    ELSE NatAdd(NatMulSmall(x, Head(y), 0),
                IF Tail(y) = << >> THEN << >> ELSE <<0>> \o NatMul(x, Tail(y)), 0)

NatIsZero(x) == \A i \in 1..Len(x) : x[i] = 0

\* The number fits a u64: it has no non-zero byte above the eighth.
FitsU64(x) == \A i \in 1..Len(x) : i > 8 => x[i] = 0

\* The bytes of x padded with zero bytes to length len.
NatPad(x, len) == [i \in 1..len |-> IF i <= Len(x) THEN x[i] ELSE 0]

\* x <= y over the naturals: wherever a byte of x is the larger, a more
\* significant byte of x is the smaller.
NatLeq(x, y) ==
    LET len == IF Len(x) > Len(y) THEN Len(x) ELSE Len(y)
        bx(i) == IF i <= Len(x) THEN x[i] ELSE 0
        by(i) == IF i <= Len(y) THEN y[i] ELSE 0
    IN  \A i \in 1..len : bx(i) > by(i) => \E j \in (i + 1)..len : bx(j) < by(j)

RECURSIVE QuotientByte(_, _, _, _)
\* The largest k in low..high with d * k at most t, given that d * low is.
QuotientByte(t, d, low, high) ==
    IF low = high THEN low
    ELSE LET mid == (low + high + 1) \div 2
         IN  IF NatLeq(NatMulSmall(d, mid, 0), t)
             THEN QuotientByte(t, d, mid, high)
             ELSE QuotientByte(t, d, low, mid - 1)

RECURSIVE NatLongDivRem(_, _)
\* Quotient and remainder of n by a non-zero d, by long division: each quotient
\* byte is the largest k with d * k at most the running remainder.
NatLongDivRem(n, d) ==
    IF n = << >> THEN [quot |-> << >>, rem |-> NatPad(<< >>, Len(d))]
    ELSE LET high == NatLongDivRem(Tail(n), d)
             t == <<Head(n)>> \o high.rem
             k == IF NatLeq(d, t) THEN QuotientByte(t, d, 1, 255) ELSE 0
         IN  [quot |-> <<k>> \o high.quot,
              rem |-> IF k = 0 THEN SubSeq(t, 1, Len(d))
                      ELSE SubSeq(NatSub(t, NatMulSmall(d, k, 0), 0), 1, Len(d))]

\* Quotient and remainder of n by a non-zero d; a divisor of at most two bytes
\* divides byte by byte.
NatDivRem(n, d) ==
    IF \A i \in 3..Len(d) : d[i] = 0
    THEN LET small == NatDivSmall(n, NatPad(d, 2)[1] + 256 * NatPad(d, 2)[2])
         IN  [quot |-> small.quot, rem |-> to_le_bytes(small.rem, Len(d))]
    ELSE NatLongDivRem(n, d)

\* The low 64 bits of a natural number: the value a wrapping u64 operation keeps.
wrapping_u64(x) == NatPad(SubSeq(x, 1, IF Len(x) < 8 THEN Len(x) ELSE 8), 8)

----------------------------------------------------------------------------
(* Circuits (encrypted-ixs).  A circuit evaluation is the set of outputs   *)
(* the cluster can reveal for the inputs: one output where the arithmetic  *)
(* is defined; an abort for a division by zero; and for an unsigned        *)
(* underflow an abort, where overflow is checked, or the output computed   *)
(* from the wrapped difference, where it is not.                           *)

Abort == [tag |-> "Abort"]
Ok(out) == [tag |-> "Ok", out |-> out]

\* The revealed (amount_in, amount_out, success).  amount_out is carried as its
\* eight bytes: a quotient of wrapped values is a u64 of any size.
SwapOutput(amount_in, amount_out, success) ==
    [amount_in |-> amount_in, amount_out |-> amount_out, success |-> success]

swap_reserve_in(reserve_a, reserve_b, is_a_to_b) ==
    IF is_a_to_b THEN reserve_a ELSE reserve_b

\* The output reserve as it would be were the direction of the swap ignored.
swap_reserve_out_undirected(reserve_a, reserve_b, is_a_to_b) == reserve_b

swap_reserve_out(reserve_a, reserve_b, is_a_to_b) ==
    IF is_a_to_b THEN reserve_b ELSE reserve_a

swap_fee(amount_in, fee_rate) == (amount_in * fee_rate) \div BPS_DENOMINATOR

\* TRUE when amount_in - fee does not underflow and the denominator is not 0.
swap_defined(amount_in, reserve_a, reserve_b, is_a_to_b, fee_rate) ==
    LET fee == swap_fee(amount_in, fee_rate)
    IN  /\ fee <= amount_in
        /\ swap_reserve_in(reserve_a, reserve_b, is_a_to_b) + (amount_in - fee) # 0

\* The quote as it would be were the fee added to the amount instead of taken
\* from it.
swap_amount_out_fee_added(amount_in, reserve_a, reserve_b, is_a_to_b, fee_rate) ==
    LET fee == swap_fee(amount_in, fee_rate)
        amount_in_after_fee == amount_in + fee
        reserve_in == swap_reserve_in(reserve_a, reserve_b, is_a_to_b)
        reserve_out == swap_reserve_out(reserve_a, reserve_b, is_a_to_b)
        numerator == amount_in_after_fee * reserve_out
        denominator == reserve_in + amount_in_after_fee
    IN  numerator \div denominator

swap_amount_out(amount_in, reserve_a, reserve_b, is_a_to_b, fee_rate) ==
    LET fee == swap_fee(amount_in, fee_rate)
        amount_in_after_fee == amount_in - fee
        reserve_in == swap_reserve_in(reserve_a, reserve_b, is_a_to_b)
        reserve_out == swap_reserve_out(reserve_a, reserve_b, is_a_to_b)
        numerator == amount_in_after_fee * reserve_out
        denominator == reserve_in + amount_in_after_fee
    IN  numerator \div denominator

\* The success flag as it would be were min_output not compared.
swap_success_nonzero(amount_out, min_output) == ~NatIsZero(amount_out)

\* amount_out >= min_output, amount_out being a u64 in bytes.
swap_success(amount_out, min_output) == NatLeq(to_le_bytes(min_output, 8), amount_out)

\* execute_swap(input_ctxt, reserve_a, reserve_b, min_output, is_a_to_b, fee_rate)
\* with amount_in the plaintext of input_ctxt.
circuits_execute_swap(amount_in, reserve_a, reserve_b, min_output, is_a_to_b, fee_rate) ==
    LET fee == swap_fee(amount_in, fee_rate)
        reserve_in == swap_reserve_in(reserve_a, reserve_b, is_a_to_b)
        reserve_out == swap_reserve_out(reserve_a, reserve_b, is_a_to_b)
    IN  IF swap_defined(amount_in, reserve_a, reserve_b, is_a_to_b, fee_rate)
        THEN LET amount_out ==
                     to_le_bytes(swap_amount_out(amount_in, reserve_a, reserve_b,
                                                 is_a_to_b, fee_rate), 8)
             IN  {Ok(SwapOutput(amount_in, amount_out,
                                swap_success(amount_out, min_output)))}
        ELSE IF fee > amount_in
        THEN \* amount_in - fee underflows: a panic, or the difference modulo 2^64
             \* and the wrapped product and sum that follow from it.
             LET amount_in_after_fee ==
                     NatSub(to_le_bytes(amount_in, 8), to_le_bytes(fee, 8), 0)
                 numerator ==
                     wrapping_u64(NatMul(amount_in_after_fee, to_le_bytes(reserve_out, 8)))
                 denominator ==
                     wrapping_u64(NatAdd(to_le_bytes(reserve_in, 8), amount_in_after_fee, 0))
                 amount_out == wrapping_u64(NatDivRem(numerator, denominator).quot)
             IN  {Abort} \cup
                 (IF NatIsZero(denominator) THEN {}
                  ELSE {Ok(SwapOutput(amount_in, amount_out,
                                      swap_success(amount_out, min_output)))})
        ELSE \* numerator / 0 panics.
             {Abort}

circuits_init_balance(nonce, owner) == {Ok([success |-> TRUE])}

\* deposit as it would be were an amount of 0 accepted.
circuits_deposit_nonnegative(amount, owner, nonce) ==
    LET new_balance == amount
        success == amount >= 0
    IN  {Ok([new_balance |-> new_balance, success |-> success])}

circuits_deposit(amount, owner, nonce) ==
    LET new_balance == amount
        success == amount > 0
    IN  {Ok([new_balance |-> new_balance, success |-> success])}

\* Values ArcisRNG::u64() can return in the model.
RngValues == {0, 1, 2}

\* add_order as it would be were an order valid when either its price or its size
\* is positive.
circuits_add_order_either(price, size, is_buy, owner) ==
    LET valid == price > 0 \/ size > 0
    IN  IF ~valid
        THEN {Ok([order_id |-> 0, success |-> FALSE])}
        ELSE {Ok([order_id |-> order_id, success |-> TRUE]) : order_id \in RngValues}

\* add_order as it would be were the id of a valid order derived from its price.
circuits_add_order_priced(price, size, is_buy, owner) ==
    LET valid == price > 0 /\ size > 0
    IN  IF ~valid
        THEN {Ok([order_id |-> 0, success |-> FALSE])}
        ELSE {Ok([order_id |-> price, success |-> TRUE])}

circuits_add_order(price, size, is_buy, owner) ==
    LET valid == price > 0 /\ size > 0
    IN  IF ~valid
        THEN {Ok([order_id |-> 0, success |-> FALSE])}
        ELSE {Ok([order_id |-> order_id, success |-> TRUE]) : order_id \in RngValues}

circuits_match_orders ==
    LET matches_count == 0
        total_volume == 0
    IN  {Ok([matches_count |-> matches_count, total_volume |-> total_volume])}

circuits_cancel_order(order_id, owner) ==
    LET success == order_id > 0
    IN  {Ok([order_id |-> order_id, success |-> success])}

----------------------------------------------------------------------------
(* Arguments of a queued computation (ArgBuilder).  Each builder call      *)
(* appends one typed field; build() yields the fields in call order.       *)

ClientKeys == {11}     \* x25519 public keys of clients
Nonces == {7}          \* encryption nonces

\* The ciphertext a client makes of `plain` under its key and nonce.
Encrypt(pub_key, nonce, plain) == [ct_key |-> pub_key, ct_nonce |-> nonce, ct_plain |-> plain]

\* Enc<Shared, _>::to_arcis(): the plaintext of a ciphertext field.
to_arcis(ct) == ct.ct_plain

x25519_pubkey(args, pub_key) == Append(args, [k |-> "x25519_pubkey", key |-> pub_key])
plaintext_u128(args, v) == Append(args, [k |-> "plaintext_u128", u128 |-> v])
plaintext_u64(args, v) == Append(args, [k |-> "plaintext_u64", u64 |-> v])
plaintext_u16(args, v) == Append(args, [k |-> "plaintext_u16", u16 |-> v])
plaintext_bool(args, v) == Append(args, [k |-> "plaintext_bool", b |-> v])
plaintext_pubkey(args, v) == Append(args, [k |-> "plaintext_pubkey", pk |-> v])
encrypted_bytes(args, ct) == Append(args, [k |-> "encrypted_bytes", ct |-> ct])

----------------------------------------------------------------------------
(* Computation accounts and the substrate's interface.                     *)

\* derive_mxe_pda!(): each program has its own MXE account.
derive_mxe_pda(program) == program

\* derive_comp_pda!(computation_offset, mxe_account, _): the address of the
\* computation account of an offset.
derive_comp_pda(computation_offset, mxe_account) ==
    [mxe |-> mxe_account, offset |-> computation_offset]

CompAddrs == {derive_comp_pda(o, derive_mxe_pda(p)) : o \in Offsets, p \in Programs}
CompAddrsOf(program) == {derive_comp_pda(o, derive_mxe_pda(program)) : o \in Offsets}
NoComp == [mxe |-> "none", offset |-> 0]

\* queue_computation fails when the computation account of the offset is in use.
queue_computation_fails(comp) == computations[comp] # NoAccount

\* queue_computation(accounts, computation_offset, args, _, callbacks, _, _):
\* the computation accounts after registering the pending computation, which
\* records the key of the cluster account it was queued with.
queue_computation(comp, ix, args) ==
    [computations EXCEPT ![comp] =
        [exists |-> TRUE, ix |-> ix, args |-> args, status |-> "queued",
         cluster |-> cluster_key]]

\* The inputs the cluster evaluates a queued computation on, and its outputs.
Evaluate(rec) ==
    LET a == rec.args
    IN  CASE rec.ix = "execute_swap" ->
                circuits_execute_swap(to_arcis(a[3].ct), a[4].u64, a[5].u64,
                                      a[6].u64, a[7].b, a[8].u16)
          [] rec.ix = "add_order" ->
                circuits_add_order(to_arcis(a[3].ct), to_arcis(a[4].ct), a[5].b, a[6].pk)
          [] rec.ix = "match_orders" -> circuits_match_orders
          [] rec.ix = "cancel_order" -> circuits_cancel_order(a[3].u64, a[4].pk)
          [] rec.ix = "init_balance" -> circuits_init_balance(a[1].u128, a[2].pk)
          [] rec.ix = "deposit" -> circuits_deposit(a[1].u64, a[2].pk, a[3].u128)

\* A signed output: the payload, and the signature's key, computation and payload.
Signed(key, comp, payload, signed_payload) ==
    [payload |-> payload, sig |-> [key |-> key, comp |-> comp, payload |-> signed_payload]]

\* What the cluster signs for a computation: an output of the circuit or an abort,
\* under a key the cluster has had.
ClusterOutputs(comp) ==
    IF computations[comp] = NoAccount THEN {}
    ELSE {Signed(k, comp, o, o) :
             k \in 1..cluster_key, o \in Evaluate(computations[comp]) \cup {Abort}}

\* A payload claiming success, as a party other than the cluster would forge it.
ForgedPayload(ix) ==
    CASE ix = "execute_swap" -> Ok(SwapOutput(1, to_le_bytes(999, 8), TRUE))
      [] ix = "add_order" -> Ok([order_id |-> 9, success |-> TRUE])
      [] ix = "match_orders" -> Ok([matches_count |-> 9, total_volume |-> 9])
      [] ix = "cancel_order" -> Ok([order_id |-> 9, success |-> TRUE])
      [] ix = "init_balance" -> Ok([success |-> TRUE])
      [] ix = "deposit" -> Ok([new_balance |-> 999, success |-> TRUE])

\* Every output that can be delivered to the callback of `ix` with computation
\* account `comp`: the cluster's own, a forgery under another key, the cluster's
\* signature with the payload replaced, and the cluster's output of another
\* computation of the program.
DeliverableOutputs(comp, ix) ==
    ClusterOutputs(comp)
    \cup {Signed(AttackerKey, comp, ForgedPayload(ix), ForgedPayload(ix))}
    \cup {Signed(s.sig.key, comp, ForgedPayload(ix), s.sig.payload) : s \in ClusterOutputs(comp)}
    \cup UNION {ClusterOutputs(c) : c \in CompAddrsOf(comp.mxe) \ {comp}}

\* #[arcium_callback(encrypted_ix = ix)]: the callback is entered only for a
\* computation of that circuit that is still outstanding.
arcium_callback(comp, ix) ==
    /\ computations[comp] # NoAccount
    /\ computations[comp].ix = ix
    /\ computations[comp].status = "queued"

VerifyErr == [tag |-> "Err"]

\* SignedComputationOutputs::verify_output(cluster_account, computation_account)
verify_output(output, cluster_account_key, comp) ==
    IF /\ output.sig.comp = comp
       /\ output.sig.payload = output.payload
       /\ output.sig.key = cluster_account_key
       /\ computations[comp] # NoAccount
       /\ output.payload.tag = "Ok"
    THEN output.payload
    ELSE VerifyErr

\* declare_id!: an instruction runs in the program it is addressed to.  The three
\* programs share no account; a behaviour follows the one that `deployed` names.
Deployed(program) == deployed = program

----------------------------------------------------------------------------
(* Results of instructions.                                                *)

\* An instruction takes effect.  Instructions run while fewer than MaxTx have
\* taken effect.
Commit == ntx < MaxTx /\ ntx' = ntx + 1

Result(op, comp, output, acct, err) ==
    [op |-> op, comp |-> comp, output |-> output, acct |-> acct, err |-> err]

\* The instruction fails: the transaction is rolled back.
Fail(op, comp, output, acct, err) ==
    /\ ntx < MaxTx
    /\ last' = Result(op, comp, output, acct, err)
    /\ UNCHANGED <<ntx, cluster_key, pool, order_book, balance_accounts, wallet,
                   computations, events, deployed, q, token_accounts>>

\* The callback was entered and returned an error: the computation is rejected.
Reject(op, comp, output, acct, err) ==
    /\ last' = Result(op, comp, output, acct, err)
    /\ Commit
    /\ computations' = [computations EXCEPT ![comp].status = "rejected"]
    /\ UNCHANGED <<cluster_key, pool, order_book, balance_accounts, wallet, events, deployed, q, token_accounts>>

\* The callback was entered and returned Ok after emitting `event`.
Settle(op, comp, output, acct, event) ==
    /\ last' = Result(op, comp, output, acct, "Ok")
    /\ Commit
    /\ computations' = [computations EXCEPT ![comp].status = "settled"]
    /\ events' = Append(events, event)
    /\ UNCHANGED <<cluster_key, pool, order_book, balance_accounts, wallet, deployed, q, token_accounts>>

----------------------------------------------------------------------------
(* private_swap                                                            *)

FeeRates == {30, 20000}            \* fee rates given to init_pool
LiquidityAmounts == {1000, 4000}   \* amounts given to add_liquidity
SwapAmounts == {0, 1000}           \* plaintexts of encrypted_amount
MinOutputs == {0, 400, 900}           \* min_output given to execute_swap

SwapPool(fee_rate) ==
    [exists |-> TRUE, authority |-> "authority", token_mint_a |-> "mint_a",
     token_mint_b |-> "mint_b", reserve_a |-> 0, reserve_b |-> 0,
     fee_rate |-> fee_rate, total_swaps |-> 0]

init_pool(fee_rate) ==
    /\ Deployed("private_swap")
    /\ IF pool # NoAccount
       THEN Fail("init_pool", NoComp, NoOutput, "none", "AccountInUse")
       ELSE /\ pool' = SwapPool(fee_rate)
            /\ last' = Result("init_pool", NoComp, NoOutput, "none", "Ok")
            /\ Commit
            /\ UNCHANGED <<cluster_key, order_book, balance_accounts, wallet,
                           computations, events, deployed, q, token_accounts>>

UserTokensA == 5000             \* token A the liquidity provider starts with
UserTokensB == 2000             \* token B the liquidity provider starts with

\* The token accounts add_liquidity names, before any transfer.
TokenAccounts(user_a, user_b, pool_a, pool_b) ==
    [user_token_a |-> user_a, user_token_b |-> user_b,
     pool_token_a |-> pool_a, pool_token_b |-> pool_b]

\* token::transfer(CpiContext::new(token_program, Transfer {from, to, authority}),
\* amount): an error when `from` holds less than amount, else the accounts after
\* the transfer.
token_transfer(accounts, from, to, amount) ==
    IF accounts[from] < amount
    THEN [ok |-> FALSE]
    ELSE [ok |-> TRUE,
          accounts |-> [accounts EXCEPT ![from] = accounts[from] - amount,
                                        ![to] = accounts[to] + amount]]

\* add_liquidity as it would be were the reserves set to the amounts given
\* instead of increased by them.
add_liquidity_overwriting(amount_a, amount_b) ==
    /\ Deployed("private_swap")
    /\ IF pool = NoAccount
       THEN Fail("add_liquidity", NoComp, NoOutput, "none", "AccountNotInitialized")
       ELSE LET sent_a == token_transfer(token_accounts, "user_token_a",
                                         "pool_token_a", amount_a)
            IN  IF ~sent_a.ok
                THEN Fail("add_liquidity", NoComp, NoOutput, "none",
                          "TokenInsufficientFunds")
                ELSE LET sent_b == token_transfer(sent_a.accounts, "user_token_b",
                                                  "pool_token_b", amount_b)
                     IN  IF ~sent_b.ok
                         THEN Fail("add_liquidity", NoComp, NoOutput, "none",
                                   "TokenInsufficientFunds")
                         ELSE /\ token_accounts' = sent_b.accounts
                              /\ pool' = [pool EXCEPT !.reserve_a = amount_a,
                                                      !.reserve_b = amount_b]
                              /\ events' = Append(events,
                                    [name |-> "LiquidityAdded",
                                     amount_a |-> amount_a, amount_b |-> amount_b])
                              /\ last' = Result("add_liquidity", NoComp, NoOutput,
                                                "none", "Ok")
                              /\ Commit
                              /\ UNCHANGED <<cluster_key, order_book, balance_accounts,
                                             wallet, computations, deployed, q>>

\* add_liquidity(ctx, amount_a, amount_b): each token::transfer(..)? returns its
\* error, which fails the instruction and rolls back what it did.
add_liquidity(amount_a, amount_b) ==
    /\ Deployed("private_swap")
    /\ IF pool = NoAccount
       THEN Fail("add_liquidity", NoComp, NoOutput, "none", "AccountNotInitialized")
       ELSE LET sent_a == token_transfer(token_accounts, "user_token_a",
                                         "pool_token_a", amount_a)
            IN  IF ~sent_a.ok
                THEN Fail("add_liquidity", NoComp, NoOutput, "none",
                          "TokenInsufficientFunds")
                ELSE LET sent_b == token_transfer(sent_a.accounts, "user_token_b",
                                                  "pool_token_b", amount_b)
                     IN  IF ~sent_b.ok
                         THEN Fail("add_liquidity", NoComp, NoOutput, "none",
                                   "TokenInsufficientFunds")
                         ELSE /\ token_accounts' = sent_b.accounts
                              /\ pool' = [pool EXCEPT
                                            !.reserve_a = pool.reserve_a + amount_a,
                                            !.reserve_b = pool.reserve_b + amount_b]
                              /\ events' = Append(events,
                                    [name |-> "LiquidityAdded",
                                     amount_a |-> amount_a, amount_b |-> amount_b])
                              /\ last' = Result("add_liquidity", NoComp, NoOutput,
                                                "none", "Ok")
                              /\ Commit
                              /\ UNCHANGED <<cluster_key, order_book, balance_accounts,
                                             wallet, computations, deployed, q>>

\* execute_swap as it would be were the computation account of the offset not
\* required to be unused: the new computation replaces whatever is stored there.
execute_swap_requeue(computation_offset, amount, min_output, is_a_to_b, pub_key, nonce) ==
    LET comp == derive_comp_pda(computation_offset, derive_mxe_pda("private_swap"))
        a1 == x25519_pubkey(<< >>, pub_key)
        a2 == plaintext_u128(a1, nonce)
        a3 == encrypted_bytes(a2, Encrypt(pub_key, nonce, amount))
        a4 == plaintext_u64(a3, pool.reserve_a)
        a5 == plaintext_u64(a4, pool.reserve_b)
        a6 == plaintext_u64(a5, min_output)
        a7 == plaintext_bool(a6, is_a_to_b)
    IN  /\ Deployed("private_swap")
        /\ IF pool = NoAccount
           THEN Fail("execute_swap", comp, NoOutput, "none", "AccountNotInitialized")
           ELSE /\ computations' =
                       queue_computation(comp, "execute_swap", plaintext_u16(a7, pool.fee_rate))
                /\ last' = Result("execute_swap", comp, NoOutput, "none", "Ok")
                /\ Commit
                /\ UNCHANGED <<cluster_key, pool, order_book, balance_accounts, wallet,
                               events, deployed, q, token_accounts>>

execute_swap_args(amount, min_output, is_a_to_b, pub_key, nonce) ==
    LET a1 == x25519_pubkey(<< >>, pub_key)
        a2 == plaintext_u128(a1, nonce)
        a3 == encrypted_bytes(a2, Encrypt(pub_key, nonce, amount))
        a4 == plaintext_u64(a3, pool.reserve_a)
        a5 == plaintext_u64(a4, pool.reserve_b)
        a6 == plaintext_u64(a5, min_output)
        a7 == plaintext_bool(a6, is_a_to_b)
    IN  plaintext_u16(a7, pool.fee_rate)

\* execute_swap(ctx, computation_offset, encrypted_amount, min_output, is_a_to_b,
\* pub_key, nonce), with `amount` the plaintext the client encrypted.
execute_swap(computation_offset, amount, min_output, is_a_to_b, pub_key, nonce) ==
    LET comp == derive_comp_pda(computation_offset, derive_mxe_pda("private_swap"))
    IN  /\ Deployed("private_swap")
        /\ IF pool = NoAccount
           THEN Fail("execute_swap", comp, NoOutput, "none", "AccountNotInitialized")
           ELSE IF queue_computation_fails(comp)
           THEN Fail("execute_swap", comp, NoOutput, "none", "DuplicateRequest")
           ELSE /\ computations' =
                       queue_computation(comp, "execute_swap",
                           execute_swap_args(amount, min_output, is_a_to_b, pub_key, nonce))
                /\ last' = Result("execute_swap", comp, NoOutput, "none", "Ok")
                /\ Commit
                /\ UNCHANGED <<cluster_key, pool, order_book, balance_accounts, wallet,
                               events, deployed, q, token_accounts>>

\* execute_swap_callback as it would be were the payload read without
\* verify_output.
execute_swap_callback_unverified(comp, output) ==
    /\ Deployed("private_swap")
    /\ IF ~arcium_callback(comp, "execute_swap")
       THEN Fail("execute_swap_callback", comp, output, "none", "NotFound")
       ELSE IF output.payload.tag # "Ok"
       THEN Reject("execute_swap_callback", comp, output, "none", "AbortedComputation")
       ELSE IF ~output.payload.out.success
       THEN Reject("execute_swap_callback", comp, output, "none", "SwapFailed")
       ELSE Settle("execute_swap_callback", comp, output, "none",
                   [name |-> "SwapExecuted", amount_in |-> output.payload.out.amount_in,
                    amount_out |-> output.payload.out.amount_out])

\* execute_swap_callback as it would be were the output verified against the
\* cluster key the computation was queued under.
execute_swap_callback_submission_key(comp, output) ==
    /\ Deployed("private_swap")
    /\ IF ~arcium_callback(comp, "execute_swap")
       THEN Fail("execute_swap_callback", comp, output, "none", "NotFound")
       ELSE LET v == verify_output(output, computations[comp].cluster, comp)
            IN  IF v = VerifyErr
                THEN Reject("execute_swap_callback", comp, output, "none",
                            "AbortedComputation")
                ELSE IF ~v.out.success
                THEN Reject("execute_swap_callback", comp, output, "none", "SwapFailed")
                ELSE Settle("execute_swap_callback", comp, output, "none",
                            [name |-> "SwapExecuted", amount_in |-> v.out.amount_in,
                             amount_out |-> v.out.amount_out])

execute_swap_callback(comp, output) ==
    /\ Deployed("private_swap")
    /\ IF ~arcium_callback(comp, "execute_swap")
       THEN Fail("execute_swap_callback", comp, output, "none", "NotFound")
       ELSE LET v == verify_output(output, cluster_key, comp)
            IN  IF v = VerifyErr
                THEN Reject("execute_swap_callback", comp, output, "none",
                            "AbortedComputation")
                ELSE IF ~v.out.success
                THEN Reject("execute_swap_callback", comp, output, "none", "SwapFailed")
                ELSE Settle("execute_swap_callback", comp, output, "none",
                            [name |-> "SwapExecuted", amount_in |-> v.out.amount_in,
                             amount_out |-> v.out.amount_out])

NextSwap ==
    \/ \E fee_rate \in FeeRates : init_pool(fee_rate)
    \/ \E amount_a, amount_b \in LiquidityAmounts : add_liquidity(amount_a, amount_b)
    \/ \E o \in Offsets, amount \in SwapAmounts, min_output \in MinOutputs,
          is_a_to_b \in BOOLEAN, pub_key \in ClientKeys, nonce \in Nonces :
            execute_swap(o, amount, min_output, is_a_to_b, pub_key, nonce)
    \/ \E comp \in CompAddrsOf("private_swap") :
          \E output \in DeliverableOutputs(comp, "execute_swap") :
            execute_swap_callback(comp, output)

----------------------------------------------------------------------------
(* dark_pool                                                               *)

OrderInputs == {<<0, 3>>, <<5, 3>>}            \* plaintext (price, size) of an order
OrderIds == {0, 1}                              \* order ids given to cancel_order

OrderBook(fee_rate) ==
    [exists |-> TRUE, authority |-> "authority", base_mint |-> "mint_a",
     quote_mint |-> "mint_b", fee_rate |-> fee_rate,
     total_orders |-> 0, total_matches |-> 0, active_orders |-> 0]

init_order_book(fee_rate) ==
    /\ Deployed("dark_pool")
    /\ IF order_book # NoAccount
       THEN Fail("init_order_book", NoComp, NoOutput, "none", "AccountInUse")
       ELSE /\ order_book' = OrderBook(fee_rate)
            /\ last' = Result("init_order_book", NoComp, NoOutput, "none", "Ok")
            /\ Commit
            /\ UNCHANGED <<cluster_key, pool, balance_accounts, wallet,
                           computations, events, deployed, q, token_accounts>>

\* The body shared by the queueing instructions of dark_pool: the order book
\* account must exist, then the computation is queued.
DarkPoolQueue(op, computation_offset, ix, args) ==
    LET comp == derive_comp_pda(computation_offset, derive_mxe_pda("dark_pool"))
    IN  IF order_book = NoAccount
        THEN Fail(op, comp, NoOutput, "none", "AccountNotInitialized")
        ELSE IF queue_computation_fails(comp)
        THEN Fail(op, comp, NoOutput, "none", "DuplicateRequest")
        ELSE /\ computations' = queue_computation(comp, ix, args)
             /\ last' = Result(op, comp, NoOutput, "none", "Ok")
             /\ Commit
             /\ UNCHANGED <<cluster_key, pool, order_book, balance_accounts, wallet,
                               events, deployed, q, token_accounts>>

add_order_args(payer, price, size, is_buy, pub_key, nonce) ==
    LET a1 == x25519_pubkey(<< >>, pub_key)
        a2 == plaintext_u128(a1, nonce)
        a3 == encrypted_bytes(a2, Encrypt(pub_key, nonce, price))
        a4 == encrypted_bytes(a3, Encrypt(pub_key, nonce, size))
        a5 == plaintext_bool(a4, is_buy)
    IN  plaintext_pubkey(a5, payer)

\* add_order(ctx, computation_offset, encrypted_price, encrypted_size, is_buy,
\* pub_key, nonce), with price and size the plaintexts the client encrypted.
add_order(payer, computation_offset, price, size, is_buy, pub_key, nonce) ==
    /\ Deployed("dark_pool")
    /\ DarkPoolQueue("add_order", computation_offset, "add_order",
                     add_order_args(payer, price, size, is_buy, pub_key, nonce))

\* add_order_callback as it would be were it entered for any computation of its
\* circuit that the account holds, outstanding or not.
add_order_callback_reentered(comp, output) ==
    /\ Deployed("dark_pool")
    /\ IF computations[comp] = NoAccount \/ computations[comp].ix # "add_order"
       THEN Fail("add_order_callback", comp, output, "none", "NotFound")
       ELSE LET v == verify_output(output, cluster_key, comp)
            IN  IF v = VerifyErr
                THEN Reject("add_order_callback", comp, output, "none",
                            "AbortedComputation")
                ELSE IF ~v.out.success
                THEN Reject("add_order_callback", comp, output, "none", "OrderFailed")
                ELSE Settle("add_order_callback", comp, output, "none",
                            [name |-> "OrderAdded", order_id |-> v.out.order_id])

add_order_callback(comp, output) ==
    /\ Deployed("dark_pool")
    /\ IF ~arcium_callback(comp, "add_order")
       THEN Fail("add_order_callback", comp, output, "none", "NotFound")
       ELSE LET v == verify_output(output, cluster_key, comp)
            IN  IF v = VerifyErr
                THEN Reject("add_order_callback", comp, output, "none",
                            "AbortedComputation")
                ELSE IF ~v.out.success
                THEN Reject("add_order_callback", comp, output, "none", "OrderFailed")
                ELSE Settle("add_order_callback", comp, output, "none",
                            [name |-> "OrderAdded", order_id |-> v.out.order_id])

match_orders_args(pub_key, nonce) ==
    LET a1 == x25519_pubkey(<< >>, pub_key)
    IN  plaintext_u128(a1, nonce)

match_orders(computation_offset, pub_key, nonce) ==
    /\ Deployed("dark_pool")
    /\ DarkPoolQueue("match_orders", computation_offset, "match_orders",
                     match_orders_args(pub_key, nonce))

\* match_orders_callback as it would be were a result without matches treated as
\* a failure.
match_orders_callback_flagged(comp, output) ==
    /\ Deployed("dark_pool")
    /\ IF ~arcium_callback(comp, "match_orders")
       THEN Fail("match_orders_callback", comp, output, "none", "NotFound")
       ELSE LET v == verify_output(output, cluster_key, comp)
            IN  IF v = VerifyErr
                THEN Reject("match_orders_callback", comp, output, "none",
                            "AbortedComputation")
                ELSE IF v.out.matches_count = 0
                THEN Reject("match_orders_callback", comp, output, "none", "OrderFailed")
                ELSE Settle("match_orders_callback", comp, output, "none",
                            [name |-> "OrdersMatched",
                             matches_count |-> v.out.matches_count,
                             total_volume |-> v.out.total_volume])

match_orders_callback(comp, output) ==
    /\ Deployed("dark_pool")
    /\ IF ~arcium_callback(comp, "match_orders")
       THEN Fail("match_orders_callback", comp, output, "none", "NotFound")
       ELSE LET v == verify_output(output, cluster_key, comp)
            IN  IF v = VerifyErr
                THEN Reject("match_orders_callback", comp, output, "none",
                            "AbortedComputation")
                ELSE Settle("match_orders_callback", comp, output, "none",
                            [name |-> "OrdersMatched",
                             matches_count |-> v.out.matches_count,
                             total_volume |-> v.out.total_volume])

cancel_order_args(payer, order_id, pub_key, nonce) ==
    LET a1 == x25519_pubkey(<< >>, pub_key)
        a2 == plaintext_u128(a1, nonce)
        a3 == plaintext_u64(a2, order_id)
    IN  plaintext_pubkey(a3, payer)

cancel_order(payer, computation_offset, order_id, pub_key, nonce) ==
    /\ Deployed("dark_pool")
    /\ DarkPoolQueue("cancel_order", computation_offset, "cancel_order",
                     cancel_order_args(payer, order_id, pub_key, nonce))

\* cancel_order_callback as it would be were a failed verification reported with
\* the instruction's business error.
cancel_order_callback_conflated(comp, output) ==
    /\ Deployed("dark_pool")
    /\ IF ~arcium_callback(comp, "cancel_order")
       THEN Fail("cancel_order_callback", comp, output, "none", "NotFound")
       ELSE LET v == verify_output(output, cluster_key, comp)
            IN  IF v = VerifyErr
                THEN Reject("cancel_order_callback", comp, output, "none", "CancelFailed")
                ELSE IF ~v.out.success
                THEN Reject("cancel_order_callback", comp, output, "none", "CancelFailed")
                ELSE Settle("cancel_order_callback", comp, output, "none",
                            [name |-> "OrderCancelled", order_id |-> v.out.order_id])

\* cancel_order_callback as it would be were the callback entered again for a
\* computation that an earlier delivery had rejected.
cancel_order_callback_retried(comp, output) ==
    /\ Deployed("dark_pool")
    /\ IF ~(/\ computations[comp] # NoAccount
            /\ computations[comp].ix = "cancel_order"
            /\ computations[comp].status \in {"queued", "rejected"})
       THEN Fail("cancel_order_callback", comp, output, "none", "NotFound")
       ELSE LET v == verify_output(output, cluster_key, comp)
            IN  IF v = VerifyErr
                THEN Reject("cancel_order_callback", comp, output, "none",
                            "AbortedComputation")
                ELSE IF ~v.out.success
                THEN Reject("cancel_order_callback", comp, output, "none", "CancelFailed")
                ELSE Settle("cancel_order_callback", comp, output, "none",
                            [name |-> "OrderCancelled", order_id |-> v.out.order_id])

cancel_order_callback(comp, output) ==
    /\ Deployed("dark_pool")
    /\ IF ~arcium_callback(comp, "cancel_order")
       THEN Fail("cancel_order_callback", comp, output, "none", "NotFound")
       ELSE LET v == verify_output(output, cluster_key, comp)
            IN  IF v = VerifyErr
                THEN Reject("cancel_order_callback", comp, output, "none",
                            "AbortedComputation")
                ELSE IF ~v.out.success
                THEN Reject("cancel_order_callback", comp, output, "none", "CancelFailed")
                ELSE Settle("cancel_order_callback", comp, output, "none",
                            [name |-> "OrderCancelled", order_id |-> v.out.order_id])

NextDarkPool ==
    \/ \E fee_rate \in {30} : init_order_book(fee_rate)
    \/ \E payer \in Payers, o \in Offsets, in \in OrderInputs, is_buy \in BOOLEAN,
          pub_key \in ClientKeys, nonce \in Nonces :
            add_order(payer, o, in[1], in[2], is_buy, pub_key, nonce)
    \/ \E comp \in CompAddrsOf("dark_pool") :
          \E output \in DeliverableOutputs(comp, "add_order") :
            add_order_callback(comp, output)
    \/ \E o \in Offsets, pub_key \in ClientKeys, nonce \in Nonces :
            match_orders(o, pub_key, nonce)
    \/ \E comp \in CompAddrsOf("dark_pool") :
          \E output \in DeliverableOutputs(comp, "match_orders") :
            match_orders_callback(comp, output)
    \/ \E payer \in Payers, o \in Offsets, order_id \in OrderIds,
          pub_key \in ClientKeys, nonce \in Nonces :
            cancel_order(payer, o, order_id, pub_key, nonce)
    \/ \E comp \in CompAddrsOf("dark_pool") :
          \E output \in DeliverableOutputs(comp, "cancel_order") :
            cancel_order_callback(comp, output)

----------------------------------------------------------------------------
(* private_pay                                                             *)

DepositAmounts == {0, 500}      \* amounts given to deposit_funds
InitialLamports == 1000         \* lamports each payer starts with

ZeroBalanceState == "zeros"     \* [0u8; 64]

PrivateBalanceAccount(owner, nonce) ==
    [exists |-> TRUE, owner |-> owner, balance_state |-> ZeroBalanceState,
     nonce |-> nonce, lamports |-> 0]

create_balance_account_args(payer, nonce) ==
    LET a1 == plaintext_u128(<< >>, nonce)
    IN  plaintext_pubkey(a1, payer)

create_balance_account(payer, computation_offset, nonce) ==
    LET comp == derive_comp_pda(computation_offset, derive_mxe_pda("private_pay"))
    IN  /\ Deployed("private_pay")
        /\ IF balance_accounts[payer] # NoAccount
           THEN Fail("create_balance_account", comp, NoOutput, payer, "AccountInUse")
           ELSE IF queue_computation_fails(comp)
           THEN Fail("create_balance_account", comp, NoOutput, payer, "DuplicateRequest")
           ELSE /\ balance_accounts' =
                       [balance_accounts EXCEPT ![payer] = PrivateBalanceAccount(payer, nonce)]
                /\ computations' = queue_computation(comp, "init_balance",
                                       create_balance_account_args(payer, nonce))
                /\ last' = Result("create_balance_account", comp, NoOutput, payer, "Ok")
                /\ Commit
                /\ UNCHANGED <<cluster_key, pool, order_book, wallet, events, deployed, q, token_accounts>>

\* The callback's balance_account is any PrivateBalanceAccount the caller passes.
\* create_balance_callback as it would be were BalanceCreated emitted before the
\* verification of the output.
create_balance_callback_emit_first(comp, output, balance_account) ==
    /\ Deployed("private_pay")
    /\ IF balance_accounts[balance_account] = NoAccount
       THEN Fail("create_balance_callback", comp, output, balance_account,
                 "AccountNotInitialized")
       ELSE IF ~arcium_callback(comp, "init_balance")
       THEN Fail("create_balance_callback", comp, output, balance_account, "NotFound")
       ELSE LET v == verify_output(output, cluster_key, comp)
                event == [name |-> "BalanceCreated",
                          owner |-> balance_accounts[balance_account].owner]
            IN  IF v = VerifyErr
                THEN /\ last' = Result("create_balance_callback", comp, output,
                                       balance_account, "AbortedComputation")
                     /\ Commit
                     /\ computations' = [computations EXCEPT ![comp].status = "rejected"]
                     /\ events' = Append(events, event)
                     /\ UNCHANGED <<cluster_key, pool, order_book, balance_accounts,
                                    wallet, deployed, q, token_accounts>>
                ELSE IF ~v.out.success
                THEN Reject("create_balance_callback", comp, output, balance_account,
                            "InitializationFailed")
                ELSE Settle("create_balance_callback", comp, output, balance_account, event)

create_balance_callback(comp, output, balance_account) ==
    /\ Deployed("private_pay")
    /\ IF balance_accounts[balance_account] = NoAccount
       THEN Fail("create_balance_callback", comp, output, balance_account,
                 "AccountNotInitialized")
       ELSE IF ~arcium_callback(comp, "init_balance")
       THEN Fail("create_balance_callback", comp, output, balance_account, "NotFound")
       ELSE LET v == verify_output(output, cluster_key, comp)
            IN  IF v = VerifyErr
                THEN Reject("create_balance_callback", comp, output, balance_account,
                            "AbortedComputation")
                ELSE IF ~v.out.success
                THEN Reject("create_balance_callback", comp, output, balance_account,
                            "InitializationFailed")
                ELSE Settle("create_balance_callback", comp, output, balance_account,
                            [name |-> "BalanceCreated",
                             owner |-> balance_accounts[balance_account].owner])

deposit_funds_args(payer, amount) ==
    LET a1 == plaintext_u64(<< >>, amount)
        a2 == plaintext_pubkey(a1, payer)
    IN  plaintext_u128(a2, balance_accounts[payer].nonce)

deposit_funds(payer, computation_offset, amount) ==
    LET comp == derive_comp_pda(computation_offset, derive_mxe_pda("private_pay"))
    IN  /\ Deployed("private_pay")
        /\ IF balance_accounts[payer] = NoAccount
           THEN Fail("deposit_funds", comp, NoOutput, payer, "AccountNotInitialized")
           ELSE IF balance_accounts[payer].owner # payer
           THEN Fail("deposit_funds", comp, NoOutput, payer, "InvalidAuthority")
           ELSE IF wallet[payer] < amount
           THEN Fail("deposit_funds", comp, NoOutput, payer, "InsufficientFunds")
           ELSE IF queue_computation_fails(comp)
           THEN Fail("deposit_funds", comp, NoOutput, payer, "DuplicateRequest")
           ELSE /\ wallet' = [wallet EXCEPT ![payer] = wallet[payer] - amount]
                /\ balance_accounts' =
                       [balance_accounts EXCEPT ![payer].lamports =
                            balance_accounts[payer].lamports + amount]
                /\ computations' = queue_computation(comp, "deposit",
                                       deposit_funds_args(payer, amount))
                /\ last' = Result("deposit_funds", comp, NoOutput, payer, "Ok")
                /\ Commit
                /\ UNCHANGED <<cluster_key, pool, order_book, events, deployed, q, token_accounts>>

\* deposit_callback as it would be were a computation not consumed by its
\* delivery.
deposit_callback_replayed(comp, output, balance_account) ==
    /\ Deployed("private_pay")
    /\ IF balance_accounts[balance_account] = NoAccount
       THEN Fail("deposit_callback", comp, output, balance_account,
                 "AccountNotInitialized")
       ELSE IF computations[comp] = NoAccount \/ computations[comp].ix # "deposit"
       THEN Fail("deposit_callback", comp, output, balance_account, "NotFound")
       ELSE LET v == verify_output(output, cluster_key, comp)
            IN  IF v = VerifyErr
                THEN Reject("deposit_callback", comp, output, balance_account,
                            "AbortedComputation")
                ELSE IF ~v.out.success
                THEN Reject("deposit_callback", comp, output, balance_account,
                            "DepositFailed")
                ELSE Settle("deposit_callback", comp, output, balance_account,
                            [name |-> "FundsDeposited",
                             owner |-> balance_accounts[balance_account].owner,
                             new_balance |-> v.out.new_balance])

deposit_callback(comp, output, balance_account) ==
    /\ Deployed("private_pay")
    /\ IF balance_accounts[balance_account] = NoAccount
       THEN Fail("deposit_callback", comp, output, balance_account,
                 "AccountNotInitialized")
       ELSE IF ~arcium_callback(comp, "deposit")
       THEN Fail("deposit_callback", comp, output, balance_account, "NotFound")
       ELSE LET v == verify_output(output, cluster_key, comp)
            IN  IF v = VerifyErr
                THEN Reject("deposit_callback", comp, output, balance_account,
                            "AbortedComputation")
                ELSE IF ~v.out.success
                THEN Reject("deposit_callback", comp, output, balance_account,
                            "DepositFailed")
                ELSE Settle("deposit_callback", comp, output, balance_account,
                            [name |-> "FundsDeposited",
                             owner |-> balance_accounts[balance_account].owner,
                             new_balance |-> v.out.new_balance])

NextPay ==
    \/ \E payer \in Payers, o \in Offsets, nonce \in Nonces :
            create_balance_account(payer, o, nonce)
    \/ \E comp \in CompAddrsOf("private_pay"), balance_account \in Payers :
          \E output \in DeliverableOutputs(comp, "init_balance") :
            create_balance_callback(comp, output, balance_account)
    \/ \E payer \in Payers, o \in Offsets, amount \in DepositAmounts :
            deposit_funds(payer, o, amount)
    \/ \E comp \in CompAddrsOf("private_pay"), balance_account \in Payers :
          \E output \in DeliverableOutputs(comp, "deposit") :
            deposit_callback(comp, output, balance_account)

----------------------------------------------------------------------------
(* The cluster's key is rotated out of band.                               *)

RotateClusterKey ==
    /\ cluster_key + 1 \in ClusterKeys
    /\ cluster_key' = cluster_key + 1
    /\ last' = Result("rotate_cluster_key", NoComp, NoOutput, "none", "Ok")
    /\ Commit
    /\ UNCHANGED <<pool, order_book, balance_accounts, wallet, computations,
                   events, deployed, q, token_accounts>>

----------------------------------------------------------------------------
(* The protocol: the three programs deployed, no account created yet.      *)

Init ==
    /\ cluster_key = 1
    /\ pool = NoAccount
    /\ order_book = NoAccount
    /\ balance_accounts = [p \in Payers |-> NoAccount]
    /\ wallet = [p \in Payers |-> InitialLamports]
    /\ computations = [c \in CompAddrs |-> NoAccount]
    /\ events = << >>
    /\ last = Result("none", NoComp, NoOutput, "none", "Ok")
    /\ ntx = 0
    /\ deployed \in Programs
    /\ q = NoQuote
    /\ token_accounts = TokenAccounts(UserTokensA, UserTokensB, 0, 0)

Next == NextSwap \/ NextDarkPool \/ NextPay \/ RotateClusterKey

Spec == Init /\ [][Next]_vars

\* dark_pool with its order book created: the state init_order_book(30) leaves,
\* from which MaxTx further instructions take effect.
InitDarkPool ==
    /\ cluster_key = 1
    /\ pool = NoAccount
    /\ order_book = OrderBook(30)
    /\ balance_accounts = [p \in Payers |-> NoAccount]
    /\ wallet = [p \in Payers |-> InitialLamports]
    /\ computations = [c \in CompAddrs |-> NoAccount]
    /\ events = << >>
    /\ last = Result("init_order_book", NoComp, NoOutput, "none", "Ok")
    /\ ntx = 0
    /\ deployed = "dark_pool"
    /\ q = NoQuote
    /\ token_accounts = TokenAccounts(UserTokensA, UserTokensB, 0, 0)

NextOrderBook == NextDarkPool \/ RotateClusterKey

SpecDarkPool == InitDarkPool /\ [][NextOrderBook]_vars

----------------------------------------------------------------------------
(* The circuits on their own: one evaluation of a circuit on inputs drawn  *)
(* from bounded sets, with the outputs it can reveal.                      *)

QuoteAmounts == {0, 1, 999, 1000, 1001, 2000}
QuoteReserves == {0, 1000, 4000, 1000000}
QuoteMinOutputs == {0, 900, 996, 997}
QuoteFeeRates == {0, 30, 10000, 20000}

InitCircuits ==
    /\ cluster_key = 1
    /\ pool = NoAccount
    /\ order_book = NoAccount
    /\ balance_accounts = [p \in Payers |-> NoAccount]
    /\ wallet = [p \in Payers |-> InitialLamports]
    /\ computations = [c \in CompAddrs |-> NoAccount]
    /\ events = << >>
    /\ last = Result("none", NoComp, NoOutput, "none", "Ok")
    /\ ntx = 0
    /\ deployed = "private_swap"
    /\ q = NoQuote
    /\ token_accounts = TokenAccounts(UserTokensA, UserTokensB, 0, 0)

EvalExecuteSwap(amount_in, reserve_a, reserve_b, min_output, is_a_to_b, fee_rate) ==
    /\ q = NoQuote
    /\ q' = [circuit |-> "execute_swap", amount_in |-> amount_in,
             reserve_a |-> reserve_a, reserve_b |-> reserve_b,
             min_output |-> min_output, is_a_to_b |-> is_a_to_b, fee_rate |-> fee_rate,
             outputs |-> circuits_execute_swap(amount_in, reserve_a, reserve_b,
                                               min_output, is_a_to_b, fee_rate)]
    /\ UNCHANGED protocolVars

MaxCalls == 2                   \* evaluations of one circuit in a behaviour
CircuitPrices == {0, 5}         \* plaintext price of an OrderInput
CircuitSizes == {0, 3}          \* plaintext size of an OrderInput

\* The evaluations of `circuit` made so far, each with its inputs and the output
\* it revealed.
CallsOf(circuit) == IF q.circuit = circuit THEN q.calls ELSE << >>

CanCall(circuit) == q = NoQuote \/ (q.circuit = circuit /\ Len(q.calls) < MaxCalls)

\* One evaluation of add_order: it reveals one of the outputs the circuit can give.
EvalAddOrder(price, size, is_buy, owner) ==
    /\ CanCall("add_order")
    /\ \E out \in circuits_add_order(price, size, is_buy, owner) :
          q' = [circuit |-> "add_order",
                calls |-> Append(CallsOf("add_order"),
                                 [price |-> price, size |-> size, is_buy |-> is_buy,
                                  owner |-> owner, out |-> out])]
    /\ UNCHANGED protocolVars

EvalCancelOrder(order_id, owner) ==
    /\ CanCall("cancel_order")
    /\ \E out \in circuits_cancel_order(order_id, owner) :
          q' = [circuit |-> "cancel_order",
                calls |-> Append(CallsOf("cancel_order"),
                                 [order_id |-> order_id, owner |-> owner, out |-> out])]
    /\ UNCHANGED protocolVars

EvalDeposit(amount, owner, nonce) ==
    /\ CanCall("deposit")
    /\ \E out \in circuits_deposit(amount, owner, nonce) :
          q' = [circuit |-> "deposit",
                calls |-> Append(CallsOf("deposit"),
                                 [amount |-> amount, owner |-> owner, nonce |-> nonce,
                                  out |-> out])]
    /\ UNCHANGED protocolVars

----------------------------------------------------------------------------
(* The execute_swap arithmetic on full-width u64 inputs.                   *)

\* The outcome of one u64 operation whose result over the naturals is exact: the
\* value a wrapping build goes on with, and whether the result left the u64 range
\* (where a build with overflow checks panics).
overflowing_u64(exact) ==
    [value |-> wrapping_u64(exact), overflow |-> ~FitsU64(exact)]

\* amount_in * (fee_rate as u64).
u64_fee_product(amount_in, fee_rate) ==
    overflowing_u64(NatMulSmall(amount_in, fee_rate, 0))

\* fee: the 64-bit product divided by 10000.
u64_fee(amount_in, fee_rate) ==
    NatDivSmall(u64_fee_product(amount_in, fee_rate).value, BPS_DENOMINATOR).quot

\* amount_in - fee: it leaves the range when fee exceeds amount_in.
u64_amount_in_after_fee(amount_in, fee_rate) ==
    [value |-> NatSub(amount_in, u64_fee(amount_in, fee_rate), 0),
     overflow |-> ~NatLeq(u64_fee(amount_in, fee_rate), amount_in)]

\* amount_in_after_fee * reserve_out.
u64_numerator(amount_in, reserve_a, reserve_b, is_a_to_b, fee_rate) ==
    overflowing_u64(NatMul(u64_amount_in_after_fee(amount_in, fee_rate).value,
                           swap_reserve_out(reserve_a, reserve_b, is_a_to_b)))

\* reserve_in + amount_in_after_fee.
u64_denominator(amount_in, reserve_a, reserve_b, is_a_to_b, fee_rate) ==
    overflowing_u64(NatAdd(swap_reserve_in(reserve_a, reserve_b, is_a_to_b),
                           u64_amount_in_after_fee(amount_in, fee_rate).value, 0))

\* 2^32, 2^40, 2^56 and 2^64 - 1 as u64 values.
U64_2_32 == <<0, 0, 0, 0, 1, 0, 0, 0>>
U64_2_40 == <<0, 0, 0, 0, 0, 1, 0, 0>>
U64_2_56 == <<0, 0, 0, 0, 0, 0, 0, 1>>
U64_MAX == <<255, 255, 255, 255, 255, 255, 255, 255>>

U64Amounts == {to_le_bytes(0, 8), to_le_bytes(1000, 8), U64_2_32, U64_2_56, U64_MAX}
U64Reserves == {to_le_bytes(0, 8), to_le_bytes(4000, 8), U64_2_40, U64_MAX}
U16FeeRates == {0, 30, 10000}

\* execute_swap on u64 inputs.  When every operation stays in range the
\* revealed amount_out is the formula's.  When one leaves the range the
\* computation panics or goes on with the wrapped value; a division by a
\* denominator that is (or wrapped to) zero panics.
circuits_execute_swap_u64(amount_in, reserve_a, reserve_b, is_a_to_b, fee_rate) ==
    LET numerator == u64_numerator(amount_in, reserve_a, reserve_b, is_a_to_b, fee_rate)
        denominator == u64_denominator(amount_in, reserve_a, reserve_b, is_a_to_b, fee_rate)
        in_range ==
            /\ ~u64_fee_product(amount_in, fee_rate).overflow
            /\ ~u64_amount_in_after_fee(amount_in, fee_rate).overflow
            /\ ~numerator.overflow
            /\ ~denominator.overflow
    IN  (IF in_range /\ ~NatIsZero(denominator.value) THEN {} ELSE {Abort})
        \cup (IF NatIsZero(denominator.value) THEN {}
              ELSE {Ok([amount_in |-> amount_in,
                        amount_out |-> wrapping_u64(NatDivRem(numerator.value,
                                                              denominator.value).quot)])})

\* One evaluation of execute_swap on u64 inputs: the outcome of each of its
\* operations and the outputs the circuit can reveal.
EvalExecuteSwapU64(amount_in, reserve_a, reserve_b, is_a_to_b, fee_rate) ==
    /\ q = NoQuote
    /\ q' = [circuit |-> "execute_swap_u64", amount_in |-> amount_in,
             reserve_a |-> reserve_a, reserve_b |-> reserve_b,
             is_a_to_b |-> is_a_to_b, fee_rate |-> fee_rate,
             fee_product |-> u64_fee_product(amount_in, fee_rate),
             amount_in_after_fee |-> u64_amount_in_after_fee(amount_in, fee_rate),
             numerator |-> u64_numerator(amount_in, reserve_a, reserve_b,
                                         is_a_to_b, fee_rate),
             denominator |-> u64_denominator(amount_in, reserve_a, reserve_b,
                                             is_a_to_b, fee_rate),
             outputs |-> circuits_execute_swap_u64(amount_in, reserve_a, reserve_b,
                                                   is_a_to_b, fee_rate)]
    /\ UNCHANGED protocolVars

NextCircuits ==
    \/ \E amount_in \in QuoteAmounts, reserve_a, reserve_b \in QuoteReserves,
          min_output \in QuoteMinOutputs, is_a_to_b \in BOOLEAN, fee_rate \in QuoteFeeRates :
            EvalExecuteSwap(amount_in, reserve_a, reserve_b, min_output, is_a_to_b, fee_rate)
    \/ \E price \in CircuitPrices, size \in CircuitSizes, is_buy \in BOOLEAN, owner \in Payers :
            EvalAddOrder(price, size, is_buy, owner)
    \/ \E order_id \in OrderIds, owner \in Payers : EvalCancelOrder(order_id, owner)
    \/ \E amount \in DepositAmounts, owner \in Payers, nonce \in Nonces :
            EvalDeposit(amount, owner, nonce)
    \/ \E amount_in \in U64Amounts, reserve_a, reserve_b \in U64Reserves,
          is_a_to_b \in BOOLEAN, fee_rate \in U16FeeRates :
            EvalExecuteSwapU64(amount_in, reserve_a, reserve_b, is_a_to_b, fee_rate)

SpecCircuits == InitCircuits /\ [][NextCircuits]_vars


----------------------------------------------------------------------------
(* add_liquidity at the width of the reserves: a pool whose reserves are u64
   values, as byte sequences.                                              *)

\* The sum as it would be were the addition to wrap instead of being checked.
wrapping_add_u64(x, y) == [some |-> TRUE, value |-> wrapping_u64(NatAdd(x, y, 0))]

\* u64::checked_add: the sum, or None when it exceeds 2^64 - 1.
checked_add_u64(x, y) ==
    IF FitsU64(NatAdd(x, y, 0))
    THEN [some |-> TRUE, value |-> wrapping_u64(NatAdd(x, y, 0))]
    ELSE [some |-> FALSE]

U64LiquidityAmounts == {to_le_bytes(0, 8), to_le_bytes(1000, 8), U64_MAX}
U64TokenHoldings == {to_le_bytes(500, 8), U64_MAX}

\* token::transfer on u64 token accounts: an error when `from` holds less than
\* amount, else the accounts after the transfer.
token_transfer_u64(accounts, from, to, amount) ==
    IF ~NatLeq(amount, accounts[from])
    THEN [ok |-> FALSE]
    ELSE [ok |-> TRUE,
          accounts |-> [accounts EXCEPT
                          ![from] = NatSub(accounts[from], amount, 0),
                          ![to] = wrapping_u64(NatAdd(accounts[to], amount, 0))]]

\* add_liquidity(ctx, amount_a, amount_b) on u64 reserves and token accounts:
\* each token::transfer(..)? returns its error, and unwrap() of a None panics;
\* either way the transaction is rolled back.
add_liquidity_u64(amount_a, amount_b) ==
    LET sent_a == token_transfer_u64(token_accounts, "user_token_a",
                                     "pool_token_a", amount_a)
    IN  /\ Deployed("private_swap")
        /\ IF ~sent_a.ok
           THEN Fail("add_liquidity", NoComp, NoOutput, "none", "TokenInsufficientFunds")
           ELSE LET sent_b == token_transfer_u64(sent_a.accounts, "user_token_b",
                                                 "pool_token_b", amount_b)
                    sum_a == checked_add_u64(pool.reserve_a, amount_a)
                    sum_b == checked_add_u64(pool.reserve_b, amount_b)
                IN  IF ~sent_b.ok
                    THEN Fail("add_liquidity", NoComp, NoOutput, "none",
                              "TokenInsufficientFunds")
                    ELSE IF ~sum_a.some \/ ~sum_b.some
                    THEN Fail("add_liquidity", NoComp, NoOutput, "none", "Panic")
                    ELSE /\ token_accounts' = sent_b.accounts
                         /\ pool' = [pool EXCEPT !.reserve_a = sum_a.value,
                                                 !.reserve_b = sum_b.value]
                         /\ events' = Append(events,
                               [name |-> "LiquidityAdded",
                                amount_a |-> amount_a, amount_b |-> amount_b])
                         /\ last' = Result("add_liquidity", NoComp, NoOutput, "none", "Ok")
                         /\ Commit
                         /\ UNCHANGED <<cluster_key, order_book, balance_accounts,
                                        wallet, computations, deployed, q>>

\* A pool that init_pool created and liquidity additions have brought to any
\* reserves.
InitLiquidity ==
    /\ cluster_key = 1
    /\ \E reserve_a, reserve_b \in U64Reserves :
          pool = [SwapPool(30) EXCEPT !.reserve_a = reserve_a, !.reserve_b = reserve_b]
    /\ order_book = NoAccount
    /\ balance_accounts = [p \in Payers |-> NoAccount]
    /\ wallet = [p \in Payers |-> InitialLamports]
    /\ computations = [c \in CompAddrs |-> NoAccount]
    /\ events = << >>
    /\ last = Result("none", NoComp, NoOutput, "none", "Ok")
    /\ ntx = 0
    /\ deployed = "private_swap"
    /\ q = NoQuote
    /\ \E user_a, user_b \in U64TokenHoldings :
          token_accounts = TokenAccounts(user_a, user_b, to_le_bytes(0, 8),
                                         to_le_bytes(0, 8))

NextLiquidity ==
    \E amount_a, amount_b \in U64LiquidityAmounts : add_liquidity_u64(amount_a, amount_b)

SpecLiquidity == InitLiquidity /\ [][NextLiquidity]_vars

----------------------------------------------------------------------------
(* Vocabulary of the properties.                                           *)

CallbackOps == {"execute_swap_callback", "add_order_callback", "match_orders_callback",
                "cancel_order_callback", "create_balance_callback", "deposit_callback"}

SubmitOps == {"execute_swap", "add_order", "match_orders", "cancel_order",
              "create_balance_account", "deposit_funds"}

\* The circuit a callback or a submitting instruction belongs to.
CircuitOf(op) ==
    CASE op \in {"execute_swap", "execute_swap_callback"} -> "execute_swap"
      [] op \in {"add_order", "add_order_callback"} -> "add_order"
      [] op \in {"match_orders", "match_orders_callback"} -> "match_orders"
      [] op \in {"cancel_order", "cancel_order_callback"} -> "cancel_order"
      [] op \in {"create_balance_account", "create_balance_callback"} -> "init_balance"
      [] op \in {"deposit_funds", "deposit_callback"} -> "deposit"

\* This step is an instruction of `ops`, successful or failed.
Runs(ops) == (last' # last \/ ntx' # ntx) /\ last'.op \in ops

\* Pool, order-book and balance records are what they were.
RecordsUnchanged ==
    /\ pool' = pool
    /\ order_book' = order_book
    /\ balance_accounts' = balance_accounts

\* Nothing durable changed and nothing was emitted.
NothingChanged ==
    /\ RecordsUnchanged
    /\ wallet' = wallet
    /\ token_accounts' = token_accounts
    /\ computations' = computations
    /\ events' = events

\* The computation account holds a computation that is still outstanding.
Outstanding(comp) ==
    computations[comp] # NoAccount /\ computations[comp].status = "queued"

\* The signature of `output` is the cluster's current one over this payload for
\* the computation stored at `comp`.
SignatureVerifies(output, comp) ==
    /\ computations[comp] # NoAccount
    /\ output.sig.key = cluster_key
    /\ output.sig.comp = comp
    /\ output.sig.payload = output.payload

\* The accounts a callback names pass the account checks made before its body.
CallbackAccountsPass(op, acct) ==
    op \in {"create_balance_callback", "deposit_callback"} => balance_accounts[acct] # NoAccount

----------------------------------------------------------------------------
(* Properties of dispatch, verification and settlement.                    *)

\* C1: in every callback handler, a delivered output whose signature does not
\* verify against the cluster's current key and the stored computation record is
\* rejected with an error whatever its payload says; no event is emitted and no
\* pool, order-book or balance record changes.
C1_UnverifiedOutputRejected ==
    [][ (Runs(CallbackOps) /\ ~SignatureVerifies(last'.output, last'.comp))
          => /\ last'.err # "Ok"
             /\ events' = events
             /\ RecordsUnchanged ]_vars

\* A forged success=true payload under a foreign key reached the swap handler for
\* an outstanding computation and was rejected as an aborted computation.
C1_Witness ==
    /\ last.op = "execute_swap_callback"
    /\ last.err = "AbortedComputation"
    /\ last.output.sig.key = AttackerKey
    /\ last.output.payload = ForgedPayload("execute_swap")
    /\ last.output.payload.out.success
    /\ computations[last.comp].status = "rejected"

\* C2: the second delivery of the same verified result for one identifier fails,
\* emits no second event and leaves all durable state as the first delivery left
\* it.
C2_SecondDeliveryFails ==
    [][ (/\ Runs(CallbackOps)
         /\ computations[last'.comp] # NoAccount
         /\ computations[last'.comp].status = "settled")
          => /\ last'.err # "Ok"
             /\ NothingChanged ]_vars

\* The verified deposit result that settled a computation was delivered again and
\* failed, with the one FundsDeposited event of the first delivery in the log.
C2_Witness ==
    /\ last.op = "deposit_callback"
    /\ last.err = "NotFound"
    /\ computations[last.comp] # NoAccount
    /\ computations[last.comp].status = "settled"
    /\ SignatureVerifies(last.output, last.comp)
    /\ last.output.payload.tag = "Ok"
    /\ last.output.payload.out.success
    /\ Cardinality({i \in 1..Len(events) : events[i].name = "FundsDeposited"}) = 1

\* The account checks a submitting instruction makes before it queues pass.
SubmitAccountsPass(op, acct) ==
    CASE op = "execute_swap" -> pool # NoAccount
      [] op \in {"add_order", "match_orders", "cancel_order"} -> order_book # NoAccount
      [] op = "create_balance_account" -> balance_accounts[acct] = NoAccount
      [] op = "deposit_funds" ->
            /\ balance_accounts[acct] # NoAccount
            /\ balance_accounts[acct].owner = acct
            /\ \A amount \in DepositAmounts : wallet[acct] >= amount

\* C3: every submitting instruction given a computation offset that is already in
\* use fails and registers nothing, with the duplicate-request error whenever its
\* own account checks pass; so an identifier never holds a second computation
\* while one is outstanding.
C3_DuplicateSubmitFails ==
    [][ (Runs(SubmitOps) /\ computations[last'.comp] # NoAccount)
          => /\ last'.err # "Ok"
             /\ NothingChanged
             /\ SubmitAccountsPass(last'.op, last'.acct) => last'.err = "DuplicateRequest" ]_vars

\* A swap was submitted under the offset of a computation that is still outstanding
\* and failed with the duplicate-request error.
C3_Witness ==
    /\ last.op = "execute_swap"
    /\ last.err = "DuplicateRequest"
    /\ Outstanding(last.comp)

\* C4: a delivery for an identifier with no pending computation (never submitted
\* or already consumed) fails, with the not-found error whatever the output is
\* once the callback's accounts exist, and leaves state unchanged and emits
\* nothing.
C4_DeliveryWithoutPendingFails ==
    [][ (Runs(CallbackOps) /\ ~Outstanding(last'.comp))
          => /\ last'.err # "Ok"
             /\ NothingChanged
             /\ CallbackAccountsPass(last'.op, last'.acct) => last'.err = "NotFound" ]_vars

\* A success payload was delivered to the add_order handler for an offset that
\* was never submitted, and failed with the not-found error.
C4_Witness ==
    /\ last.op = "add_order_callback"
    /\ last.err = "NotFound"
    /\ computations[last.comp] = NoAccount
    /\ last.output.payload = ForgedPayload("add_order")


----------------------------------------------------------------------------
(* Properties of the swap circuit.                                         *)

\* `quotient` is the truncating quotient of `numerator` by `denominator`.
RECURSIVE from_le_bytes(_)
\* The number whose little-endian bytes are x.
from_le_bytes(x) == IF x = << >> THEN 0 ELSE Head(x) + 256 * from_le_bytes(Tail(x))

IsQuotient(quotient, numerator, denominator) ==
    /\ quotient * denominator <= numerator
    /\ numerator < (quotient + 1) * denominator

\* C5: on every input whose denominator is not zero the execute_swap circuit
\* reveals exactly (amount_in, amount_out, success) with fee = amount_in * fee_bps
\* / 10000, amount_after_fee = amount_in - fee, amount_out = amount_after_fee *
\* reserve_out / (reserve_in + amount_after_fee), the divisions truncating,
\* success = (amount_out >= min_output) and (reserve_in, reserve_out) taken in the
\* direction of the swap; reserves (1000000, 1000000), fee_bps 30, amount_in 1000
\* and min_output 900 give (1000, 996, true).
C5_ExecuteSwapFormula ==
    (q.circuit = "execute_swap") =>
      LET reserve_in == IF q.is_a_to_b THEN q.reserve_a ELSE q.reserve_b
          reserve_out == IF q.is_a_to_b THEN q.reserve_b ELSE q.reserve_a
      IN  /\ \A fee \in 0..q.amount_in :
                (/\ IsQuotient(fee, q.amount_in * q.fee_rate, 10000)
                 /\ reserve_in + (q.amount_in - fee) # 0)
                => /\ Cardinality(q.outputs) = 1
                   /\ \A o \in q.outputs :
                        /\ o.tag = "Ok"
                        /\ o.out.amount_in = q.amount_in
                        /\ Len(o.out.amount_out) = 8
                        /\ IsQuotient(from_le_bytes(o.out.amount_out),
                                      (q.amount_in - fee) * reserve_out,
                                      reserve_in + (q.amount_in - fee))
                        /\ o.out.success
                              = (from_le_bytes(o.out.amount_out) >= q.min_output)
          /\ (/\ q.reserve_a = 1000000 /\ q.reserve_b = 1000000 /\ q.fee_rate = 30
              /\ q.amount_in = 1000 /\ q.min_output = 900)
             => q.outputs = {Ok(SwapOutput(1000, to_le_bytes(996, 8), TRUE))}

\* The circuit was evaluated on the worked example, from b to a, and revealed
\* (1000, 996, true).
C5_Witness ==
    /\ q.circuit = "execute_swap"
    /\ q.reserve_a = 1000000 /\ q.reserve_b = 1000000 /\ q.fee_rate = 30
    /\ q.amount_in = 1000 /\ q.min_output = 900 /\ ~q.is_a_to_b
    /\ q.outputs = {Ok(SwapOutput(1000, to_le_bytes(996, 8), TRUE))}

\* C6: no output the execute_swap circuit can reveal for a queued swap has
\* success = true with amount_out below the request's min_output, and no
\* SwapExecuted event is emitted with amount_out below the min_output of the
\* request it settles.
C6_NoSuccessBelowMinOutput ==
    /\ [](\A c \in CompAddrs :
            (computations[c] # NoAccount /\ computations[c].ix = "execute_swap")
            => \A o \in Evaluate(computations[c]) :
                  (o.tag = "Ok" /\ o.out.success)
                  => NatLeq(to_le_bytes(computations[c].args[6].u64, 8),
                            o.out.amount_out))
    /\ [][ (Runs({"execute_swap_callback"}) /\ events' # events)
             => /\ events'[Len(events')].name = "SwapExecuted"
                /\ NatLeq(to_le_bytes(computations[last'.comp].args[6].u64, 8),
                          events'[Len(events')].amount_out) ]_vars

\* A swap of 1000 against reserves (1000, 1000) asking for at least 400 settled
\* with SwapExecuted{1000, 499}.
C6_Witness ==
    /\ last.op = "execute_swap_callback"
    /\ last.err = "Ok"
    /\ computations[last.comp].args[6].u64 = 400
    /\ events[Len(events)] = [name |-> "SwapExecuted", amount_in |-> 1000,
                           amount_out |-> to_le_bytes(499, 8)]

\* The precondition of the monotonicity of the quote: the fee rate is at most
\* 10000 basis points and reserve_in + amount_in * (10000 - fee_bps) / 10000 > 0.
QuoteDefined(amount_in, reserve_in, fee_rate) ==
    /\ fee_rate <= 10000
    /\ reserve_in + (amount_in * (10000 - fee_rate)) \div 10000 > 0

\* The amount_out of the evaluated swap with its amount and fee rate replaced.
QuoteAt(amount_in, fee_rate) ==
    swap_amount_out(amount_in, q.reserve_a, q.reserve_b, q.is_a_to_b, fee_rate)

QuoteReserveIn == IF q.is_a_to_b THEN q.reserve_a ELSE q.reserve_b

\* C7 as stated: amount_out strictly increases with amount_in (reserves and fee
\* fixed) and strictly decreases with fee_bps (amount and reserves fixed).
C7_StrictlyMonotone ==
    (q.circuit = "execute_swap" /\ QuoteDefined(q.amount_in, QuoteReserveIn, q.fee_rate)) =>
      /\ \A amount_in \in QuoteAmounts :
            (amount_in > q.amount_in /\ QuoteDefined(amount_in, QuoteReserveIn, q.fee_rate))
            => QuoteAt(amount_in, q.fee_rate) > QuoteAt(q.amount_in, q.fee_rate)
      /\ \A fee_rate \in QuoteFeeRates :
            (fee_rate > q.fee_rate /\ QuoteDefined(q.amount_in, QuoteReserveIn, fee_rate))
            => QuoteAt(q.amount_in, fee_rate) < QuoteAt(q.amount_in, q.fee_rate)

\* C7: where reserve_in + amount_in * (10000 - fee_bps) / 10000 > 0 and fee_bps is
\* at most 10000, amount_out never decreases when amount_in grows (reserves and
\* fee fixed) and never increases when fee_bps grows (amount and reserves fixed).
C7_Monotone ==
    (q.circuit = "execute_swap" /\ QuoteDefined(q.amount_in, QuoteReserveIn, q.fee_rate)) =>
      /\ \A amount_in \in QuoteAmounts :
            (amount_in > q.amount_in /\ QuoteDefined(amount_in, QuoteReserveIn, q.fee_rate))
            => QuoteAt(amount_in, q.fee_rate) >= QuoteAt(q.amount_in, q.fee_rate)
      /\ \A fee_rate \in QuoteFeeRates :
            (fee_rate > q.fee_rate /\ QuoteDefined(q.amount_in, QuoteReserveIn, fee_rate))
            => QuoteAt(q.amount_in, fee_rate) <= QuoteAt(q.amount_in, q.fee_rate)

\* The circuit was evaluated on amount_in 1000 against reserves (1000, 1000) at 30
\* basis points and revealed amount_out 499; amount_in 1001 gives 499 as well, and
\* amount_in 2000 gives more.
C7_Witness ==
    /\ q.circuit = "execute_swap"
    /\ q.amount_in = 1000 /\ q.reserve_a = 1000 /\ q.reserve_b = 1000 /\ q.fee_rate = 30
    /\ QuoteDefined(1001, QuoteReserveIn, q.fee_rate)
    /\ q.outputs = {Ok(SwapOutput(1000, to_le_bytes(499, 8),
                                  swap_success(to_le_bytes(499, 8), q.min_output)))}
    /\ QuoteAt(1001, q.fee_rate) = 499
    /\ QuoteAt(2000, q.fee_rate) > 499

----------------------------------------------------------------------------
(* Properties of settlement.                                               *)

\* C8 as stated: a swap that settles with a verified success = true result updates
\* the pool's reserves for the swap and increments the pool's swap counter by one
\* in the step that emits SwapExecuted{amount_in, amount_out}.
C8_SettlementUpdatesPool ==
    [][ (Runs({"execute_swap_callback"}) /\ last'.err = "Ok")
          => LET out == last'.output.payload.out
                 is_a_to_b == computations[last'.comp].args[7].b
             IN  /\ events' = Append(events, [name |-> "SwapExecuted",
                                              amount_in |-> out.amount_in,
                                              amount_out |-> out.amount_out])
                 /\ pool'.total_swaps = pool.total_swaps + 1
                 /\ swap_reserve_in(pool'.reserve_a, pool'.reserve_b, is_a_to_b)
                      = swap_reserve_in(pool.reserve_a, pool.reserve_b, is_a_to_b) + out.amount_in
                 /\ NatPad(NatAdd(to_le_bytes(swap_reserve_out(pool'.reserve_a,
                                                   pool'.reserve_b, is_a_to_b), 8),
                                  out.amount_out, 0), 9)
                      = to_le_bytes(swap_reserve_out(pool.reserve_a, pool.reserve_b,
                                                     is_a_to_b), 9) ]_vars

\* A swap settled and emitted SwapExecuted{1000, 499} with the pool's reserves
\* still (1000, 1000) and its swap counter still 0.
C8_Witness ==
    /\ last.op = "execute_swap_callback"
    /\ last.err = "Ok"
    /\ last.output.payload.out = SwapOutput(1000, to_le_bytes(499, 8), TRUE)
    /\ pool.reserve_a = 1000 /\ pool.reserve_b = 1000
    /\ pool.total_swaps = 0

\* The business error of a callback.
BusinessError(op) ==
    CASE op = "execute_swap_callback" -> "SwapFailed"
      [] op = "add_order_callback" -> "OrderFailed"
      [] op = "cancel_order_callback" -> "CancelFailed"
      [] op = "deposit_callback" -> "DepositFailed"
      [] op = "create_balance_callback" -> "InitializationFailed"
      [] op = "match_orders_callback" -> "none"

\* C9: a callback entered for its outstanding computation fails with its
\* instruction's business error, emits nothing and leaves pool, order-book and
\* balance records as they were when the output verifies and carries success =
\* false; it fails with AbortedComputation when the output does not verify or is
\* an abort.
C9_BusinessAndProtocolErrors ==
    [][ (/\ Runs(CallbackOps)
         /\ Outstanding(last'.comp)
         /\ computations[last'.comp].ix = CircuitOf(last'.op)
         /\ CallbackAccountsPass(last'.op, last'.acct))
          => IF SignatureVerifies(last'.output, last'.comp) /\ last'.output.payload.tag = "Ok"
             THEN (last'.op # "match_orders_callback" /\ ~last'.output.payload.out.success)
                  => /\ last'.err = BusinessError(last'.op)
                     /\ events' = events
                     /\ RecordsUnchanged
             ELSE last'.err = "AbortedComputation" ]_vars

\* The verified result of a swap whose amount_out 499 is below min_output 900 was
\* delivered and the handler failed with SwapFailed.
C9_Witness ==
    /\ last.op = "execute_swap_callback"
    /\ last.err = "SwapFailed"
    /\ SignatureVerifies(last.output, last.comp)
    /\ last.output.payload = Ok(SwapOutput(1000, to_le_bytes(499, 8), FALSE))
    /\ computations[last.comp].status = "rejected"

\* The event an instruction emits when it succeeds.
EventOf(op) ==
    CASE op = "execute_swap_callback" -> "SwapExecuted"
      [] op = "add_liquidity" -> "LiquidityAdded"
      [] op = "add_order_callback" -> "OrderAdded"
      [] op = "match_orders_callback" -> "OrdersMatched"
      [] op = "cancel_order_callback" -> "OrderCancelled"
      [] op = "create_balance_callback" -> "BalanceCreated"
      [] op = "deposit_callback" -> "FundsDeposited"
      [] OTHER -> "none"

EventCount(name) == Cardinality({i \in 1..Len(events) : events[i].name = name})

\* The computations of a circuit that have settled.
Settlements(ix) ==
    Cardinality({c \in CompAddrs : /\ computations[c] # NoAccount
                                   /\ computations[c].ix = ix
                                   /\ computations[c].status = "settled"})

\* C10: an instruction that succeeds emits its event exactly once, an instruction
\* that fails in verification, in the protocol or in the circuit's answer emits
\* nothing, and the log holds as many events of each kind as computations of that
\* kind have settled.
C10_OneEventPerSettlement ==
    /\ [](\A op \in CallbackOps : EventCount(EventOf(op)) = Settlements(CircuitOf(op)))
    /\ [][ (last' # last \/ ntx' # ntx)
             => IF last'.err = "Ok" /\ EventOf(last'.op) # "none"
                THEN /\ Len(events') = Len(events) + 1
                     /\ SubSeq(events', 1, Len(events)) = events
                     /\ events'[Len(events')].name = EventOf(last'.op)
                ELSE events' = events ]_vars

\* A balance account was created and funded: the log holds exactly BalanceCreated
\* and FundsDeposited, one for each of the two settled computations.
C10_Witness ==
    /\ events = <<[name |-> "BalanceCreated", owner |-> "alice"],
                  [name |-> "FundsDeposited", owner |-> "alice", new_balance |-> 500]>>
    /\ Settlements("init_balance") = 1
    /\ Settlements("deposit") = 1
    /\ last.op = "deposit_callback"
    /\ last.err = "Ok"

----------------------------------------------------------------------------
(* Properties of the order circuits.                                       *)

\* C11: add_order with price = 0 or size = 0 reveals (0, false) and nothing else,
\* for either side and any owner.
C11_InvalidOrderRejected ==
    \A i \in 1..Len(CallsOf("add_order")) :
        LET call == CallsOf("add_order")[i]
        IN  (call.price = 0 \/ call.size = 0)
            => call.out = Ok([order_id |-> 0, success |-> FALSE])

\* add_order was evaluated on a sell order of price 5 and size 0 and revealed
\* (0, false).
C11_Witness ==
    \E i \in 1..Len(CallsOf("add_order")) :
        LET call == CallsOf("add_order")[i]
        IN  /\ call.price = 5 /\ call.size = 0 /\ ~call.is_buy
            /\ call.out = Ok([order_id |-> 0, success |-> FALSE])

\* C12 as stated: add_order with price > 0 and size > 0 always reveals a nonzero
\* order id with success = true, so a revealed id of 0 always means rejection.
C12_ValidOrderGetsNonzeroId ==
    \A i \in 1..Len(CallsOf("add_order")) :
        LET call == CallsOf("add_order")[i]
        IN  /\ (call.price > 0 /\ call.size > 0)
               => (call.out.tag = "Ok" /\ call.out.out.success /\ call.out.out.order_id # 0)
            /\ (call.out.tag = "Ok" /\ call.out.out.order_id = 0) => ~call.out.out.success

\* add_order was evaluated on price 5 and size 3 and revealed (0, true).
C12_Witness ==
    \E i \in 1..Len(CallsOf("add_order")) :
        LET call == CallsOf("add_order")[i]
        IN  /\ call.price = 5 /\ call.size = 3
            /\ call.out = Ok([order_id |-> 0, success |-> TRUE])

\* C13 as stated: over any sequence of add_order calls, two successful calls never
\* return the same order id.
C13_OrderIdsFresh ==
    \A i, j \in 1..Len(CallsOf("add_order")) :
        LET first == CallsOf("add_order")[i].out
            second == CallsOf("add_order")[j].out
        IN  (i < j /\ first.out.success /\ second.out.success)
            => first.out.order_id # second.out.order_id

\* Two add_order evaluations on valid input both revealed (1, true).
C13_Witness ==
    /\ Len(CallsOf("add_order")) = 2
    /\ CallsOf("add_order")[1].out = Ok([order_id |-> 1, success |-> TRUE])
    /\ CallsOf("add_order")[2].out = Ok([order_id |-> 1, success |-> TRUE])

----------------------------------------------------------------------------
(* Properties of order-book settlement.                                    *)

\* The callback `op` is entered for its outstanding computation with an output
\* that verifies and is not an abort.
VerifiedDelivery(op) ==
    /\ Runs({op})
    /\ Outstanding(last'.comp)
    /\ computations[last'.comp].ix = CircuitOf(op)
    /\ CallbackAccountsPass(op, last'.acct)
    /\ SignatureVerifies(last'.output, last'.comp)
    /\ last'.output.payload.tag = "Ok"

\* C14 as stated: when add_order settles with a verified success = true result the
\* handler emits OrderAdded with the returned order id and increments the order
\* book's total_orders and active_orders by exactly one each.
C14_AddOrderSettlementCounts ==
    [][ (Runs({"add_order_callback"}) /\ last'.err = "Ok")
          => /\ events' = Append(events, [name |-> "OrderAdded",
                                          order_id |-> last'.output.payload.out.order_id])
             /\ order_book'.total_orders = order_book.total_orders + 1
             /\ order_book'.active_orders = order_book.active_orders + 1 ]_vars

\* An order settled with OrderAdded{1} and the order book still counts no order.
C14_Witness ==
    /\ last.op = "add_order_callback"
    /\ last.err = "Ok"
    /\ events = <<[name |-> "OrderAdded", order_id |-> 1]>>
    /\ order_book.total_orders = 0
    /\ order_book.active_orders = 0

\* C15: match_orders settlement has no success flag: every verified result is
\* applied, emitting exactly one OrdersMatched with the returned (matches_count,
\* total_volume), adding matches_count to the order book's total_matches and
\* leaving active_orders as it is when nothing was matched.
C15_MatchAlwaysApplied ==
    [][ VerifiedDelivery("match_orders_callback")
          => LET out == last'.output.payload.out
             IN  /\ last'.err = "Ok"
                 /\ events' = Append(events, [name |-> "OrdersMatched",
                                              matches_count |-> out.matches_count,
                                              total_volume |-> out.total_volume])
                 /\ order_book'.total_matches = order_book.total_matches + out.matches_count
                 /\ out.matches_count = 0
                      => order_book'.active_orders = order_book.active_orders ]_vars

\* A match settled on the cluster's result (0, 0) and emitted OrdersMatched{0, 0}.
C15_Witness ==
    /\ last.op = "match_orders_callback"
    /\ last.err = "Ok"
    /\ SignatureVerifies(last.output, last.comp)
    /\ events = <<[name |-> "OrdersMatched", matches_count |-> 0, total_volume |-> 0]>>
    /\ order_book.total_matches = 0

\* An order with this id was added for `owner` and has not been cancelled.
OrderInBook(order_id, owner) ==
    /\ \E i \in 1..Len(events) :
          events[i] = [name |-> "OrderAdded", order_id |-> order_id]
    /\ \E c \in CompAddrs :
          /\ computations[c] # NoAccount
          /\ computations[c].ix = "add_order"
          /\ computations[c].status = "settled"
          /\ computations[c].args[6].pk = owner
    /\ ~\E i \in 1..Len(events) :
          events[i] = [name |-> "OrderCancelled", order_id |-> order_id]

\* C16 as stated: a cancel with order_id = 0 fails with CancelFailed at settlement
\* and changes no counter; a cancel of a nonzero id that is in the book and owned
\* by the caller succeeds, and its settlement decrements active_orders by exactly
\* one and emits OrderCancelled with that id.
C16_CancelSettlement ==
    [][ VerifiedDelivery("cancel_order_callback")
          => LET order_id == computations[last'.comp].args[3].u64
                 caller == computations[last'.comp].args[4].pk
                 out == last'.output.payload.out
             IN  IF order_id = 0
                 THEN /\ ~out.success
                      /\ last'.err = "CancelFailed"
                      /\ order_book' = order_book
                      /\ events' = events
                 ELSE OrderInBook(order_id, caller)
                      => /\ out.success
                         /\ last'.err = "Ok"
                         /\ events' = Append(events, [name |-> "OrderCancelled",
                                                      order_id |-> order_id])
                         /\ order_book'.active_orders = order_book.active_orders - 1 ]_vars

\* alice's add_order settled with OrderAdded{1}; her cancel of order 1 then
\* settled on the cluster's result (1, true) with OrderCancelled{1}, and
\* active_orders is still what it was before the cancel.
C16_Witness ==
    /\ last.op = "cancel_order_callback"
    /\ last.err = "Ok"
    /\ SignatureVerifies(last.output, last.comp)
    /\ last.output.payload = Ok([order_id |-> 1, success |-> TRUE])
    /\ computations[last.comp].ix = "cancel_order"
    /\ computations[last.comp].args[3].u64 = 1
    /\ computations[last.comp].args[4].pk = "alice"
    /\ \E c \in CompAddrs :
          /\ computations[c] # NoAccount
          /\ computations[c].ix = "add_order"
          /\ computations[c].status = "settled"
          /\ computations[c].args[6].pk = "alice"
    /\ events = <<[name |-> "OrderAdded", order_id |-> 1],
                  [name |-> "OrderCancelled", order_id |-> 1]>>
    /\ order_book.active_orders = 0

\* C17 as stated: cancel_order reveals success = true only if an order with that
\* id is in the book and is owned by the caller.
C17_CancelNeedsOwnedOrder ==
    \A c \in CompAddrs :
        (Outstanding(c) /\ computations[c].ix = "cancel_order")
        => \A o \in Evaluate(computations[c]) :
              (o.tag = "Ok" /\ o.out.success)
              => OrderInBook(computations[c].args[3].u64, computations[c].args[4].pk)

\* A cancel of order 1 is queued while no order was ever added, and the circuit
\* reveals (1, true) for it.
C17_Witness ==
    \E c \in CompAddrs :
        /\ Outstanding(c)
        /\ computations[c].ix = "cancel_order"
        /\ computations[c].args[3].u64 = 1
        /\ Ok([order_id |-> 1, success |-> TRUE]) \in Evaluate(computations[c])
        /\ events = << >>

----------------------------------------------------------------------------
(* Properties of deposits and of the balance blob.                         *)

\* C18: deposit reveals success = (amount > 0); the settlement of a deposit of 0
\* ends in DepositFailed with no event and the balance account unchanged, and the
\* settlement of a deposit of a positive amount succeeds and emits exactly one
\* FundsDeposited.
C18_DepositSuccessIffPositive ==
    /\ [](\A c \in CompAddrs :
            (computations[c] # NoAccount /\ computations[c].ix = "deposit")
            => \A o \in Evaluate(computations[c]) :
                  /\ o.tag = "Ok"
                  /\ o.out.success = (computations[c].args[1].u64 > 0))
    /\ [][ VerifiedDelivery("deposit_callback")
             => IF computations[last'.comp].args[1].u64 = 0
                THEN /\ last'.err = "DepositFailed"
                     /\ events' = events
                     /\ balance_accounts' = balance_accounts
                ELSE /\ last'.err = "Ok"
                     /\ Len(events') = Len(events) + 1
                     /\ SubSeq(events', 1, Len(events)) = events
                     /\ events'[Len(events')].name = "FundsDeposited" ]_vars

\* The verified result of a deposit of 0 was delivered and the handler failed with
\* DepositFailed, the log still empty.
C18_Witness ==
    /\ last.op = "deposit_callback"
    /\ last.err = "DepositFailed"
    /\ SignatureVerifies(last.output, last.comp)
    /\ computations[last.comp].args[1].u64 = 0
    /\ last.output.payload = Ok([new_balance |-> 0, success |-> FALSE])
    /\ events = << >>

RECURSIVE DepositedBy(_, _)
\* The sum of the amounts of the successful deposits of `owner` among the first n
\* evaluations of deposit.
DepositedBy(owner, n) ==
    IF n = 0 THEN 0
    ELSE LET call == CallsOf("deposit")[n]
         IN  DepositedBy(owner, n - 1)
             + (IF call.owner = owner /\ call.out.out.success THEN call.amount ELSE 0)

\* C19 as stated: a successful deposit reveals the balance before it plus the
\* amount, so over successful deposits on a fresh account the revealed balance is
\* the sum of all amounts deposited.
C19_DepositAccumulates ==
    \A i \in 1..Len(CallsOf("deposit")) :
        LET call == CallsOf("deposit")[i]
        IN  call.out.out.success
            => call.out.out.new_balance = DepositedBy(call.owner, i - 1) + call.amount

\* alice deposited 500 twice and the second deposit revealed a balance of 500.
C19_Witness ==
    /\ Len(CallsOf("deposit")) = 2
    /\ \A i \in 1..2 : /\ CallsOf("deposit")[i].owner = "alice"
                       /\ CallsOf("deposit")[i].amount = 500
    /\ CallsOf("deposit")[2].out = Ok([new_balance |-> 500, success |-> TRUE])

\* C20 as stated: the encrypted blob of a balance account is replaced by a verified
\* successful init_balance or deposit settlement, which for a deposit emits the
\* new revealed balance, and no other operation alters it.
C20_BlobReplacedOnlyBySettlement ==
    [][ \A p \in Payers :
          balance_accounts[p] # NoAccount
          => IF /\ Runs({"create_balance_callback", "deposit_callback"})
                /\ last'.err = "Ok"
                /\ last'.acct = p
             THEN /\ balance_accounts'[p].balance_state # balance_accounts[p].balance_state
                  /\ last'.op = "deposit_callback"
                       => events'[Len(events')].new_balance
                            = last'.output.payload.out.new_balance
             ELSE balance_accounts'[p].balance_state = balance_accounts[p].balance_state ]_vars

\* A deposit of 500 settled with FundsDeposited{alice, 500} and the account's blob
\* is still the zeros create_balance_account wrote.
C20_Witness ==
    /\ last.op = "deposit_callback"
    /\ last.err = "Ok"
    /\ last.acct = "alice"
    /\ events[Len(events)] = [name |-> "FundsDeposited", owner |-> "alice", new_balance |-> 500]
    /\ balance_accounts["alice"].balance_state = ZeroBalanceState

----------------------------------------------------------------------------
(* Properties of submission, privacy and argument encoding.                *)

\* C21 as stated: a submitting instruction that succeeds only creates the
\* pending-computation record: pool, order book, balance accounts and fund
\* holdings are the same after it as before, and nothing is emitted.
C21_SubmitOnlyRegisters ==
    [][ (Runs(SubmitOps) /\ last'.err = "Ok")
          => /\ computations' # computations
             /\ RecordsUnchanged
             /\ wallet' = wallet
             /\ events' = events ]_vars

\* deposit_funds of 500 succeeded: alice's wallet holds 500 less and her balance
\* account 500 more while the computation is still outstanding.
C21_Witness ==
    /\ last.op = "deposit_funds"
    /\ last.err = "Ok"
    /\ Outstanding(last.comp)
    /\ wallet["alice"] = InitialLamports - 500
    /\ balance_accounts["alice"].lamports = 500

\* The amount_in fields the execute_swap circuit can reveal when the ciphertext of
\* the queued arguments `a` holds `amount` and the public arguments are as queued.
RevealedAmountIn(amount, a) ==
    {o.out.amount_in :
        o \in {p \in circuits_execute_swap(amount, a[4].u64, a[5].u64, a[6].u64,
                                           a[7].b, a[8].u16) : p.tag = "Ok"}}

\* C22 as stated: the plaintext of the encrypted amount_in is not published: the
\* amount_in field of the revealed output and of the emitted SwapExecuted is one
\* that a swap differing only in the encrypted amount would publish too.
C22_AmountInNotPublished ==
    [][ (VerifiedDelivery("execute_swap_callback") /\ last'.err = "Ok")
          => \A amount \in SwapAmounts :
                /\ last'.output.payload.out.amount_in
                      \in RevealedAmountIn(amount, computations[last'.comp].args)
                /\ events'[Len(events')].amount_in
                      \in RevealedAmountIn(amount, computations[last'.comp].args) ]_vars

\* A swap whose encrypted amount is 1000 has settled and SwapExecuted carries
\* amount_in = 1000.
C22_Witness ==
    /\ last.op = "execute_swap_callback"
    /\ last.err = "Ok"
    /\ computations[last.comp] # NoAccount
    /\ to_arcis(computations[last.comp].args[3].ct) = 1000
    /\ Len(events) > 0
    /\ events[Len(events)].name = "SwapExecuted"
    /\ events[Len(events)].amount_in = 1000
    /\ pool.reserve_a > 0

\* The declared inputs of each #[instruction] circuit, in declared order: the type
\* of each parameter, and for an Enc<Shared, T> the number of fields of T.
circuit_inputs(ix) ==
    CASE ix = "execute_swap" ->
            << [ty |-> "Enc<Shared>", fields |-> 1], [ty |-> "u64", fields |-> 0],
               [ty |-> "u64", fields |-> 0], [ty |-> "u64", fields |-> 0],
               [ty |-> "bool", fields |-> 0], [ty |-> "u16", fields |-> 0] >>
      [] ix = "add_order" ->
            << [ty |-> "Enc<Shared>", fields |-> 2], [ty |-> "bool", fields |-> 0],
               [ty |-> "[u8; 32]", fields |-> 0] >>
      [] ix = "match_orders" -> << >>
      [] ix = "cancel_order" ->
            << [ty |-> "u64", fields |-> 0], [ty |-> "[u8; 32]", fields |-> 0] >>
      [] ix = "init_balance" ->
            << [ty |-> "u128", fields |-> 0], [ty |-> "[u8; 32]", fields |-> 0] >>
      [] ix = "deposit" ->
            << [ty |-> "u64", fields |-> 0], [ty |-> "[u8; 32]", fields |-> 0],
               [ty |-> "u128", fields |-> 0] >>

\* The arguments one declared input takes: an Enc<Shared, T> is the client's
\* x25519 public key, the nonce, then one ciphertext per field of T; a plaintext
\* input is one argument of its type.
input_args(input) ==
    CASE input.ty = "Enc<Shared>" ->
            <<"x25519_pubkey", "plaintext_u128">>
               \o [i \in 1..input.fields |-> "encrypted_bytes"]
      [] input.ty = "u64" -> <<"plaintext_u64">>
      [] input.ty = "u128" -> <<"plaintext_u128">>
      [] input.ty = "u16" -> <<"plaintext_u16">>
      [] input.ty = "bool" -> <<"plaintext_bool">>
      [] input.ty = "[u8; 32]" -> <<"plaintext_pubkey">>

RECURSIVE DeclaredArgs(_)
\* The argument list a sequence of declared inputs takes.
DeclaredArgs(inputs) ==
    IF inputs = << >> THEN << >>
    ELSE input_args(Head(inputs)) \o DeclaredArgs(Tail(inputs))

\* The kinds of the arguments of a built argument list, in order.
ArgKinds(args) == [i \in 1..Len(args) |-> args[i].k]

\* C23 as stated: the argument list queued for a computation is exactly the
\* circuit's declared inputs in declared order, with nothing added.
C23_ArgsMatchDeclaredInputs ==
    \A comp \in CompAddrs :
        computations[comp] # NoAccount
          => ArgKinds(computations[comp].args)
                = DeclaredArgs(circuit_inputs(computations[comp].ix))

\* cancel_order was submitted: the queued list has four arguments, the circuit
\* declares two inputs.
C23_Witness ==
    /\ last.op = "cancel_order"
    /\ last.err = "Ok"
    /\ computations[last.comp] # NoAccount
    /\ computations[last.comp].ix = "cancel_order"
    /\ Len(computations[last.comp].args) = 4
    /\ Len(DeclaredArgs(circuit_inputs("cancel_order"))) = 2

----------------------------------------------------------------------------
(* Properties of ordering: stale results, terminal states, key rotation.   *)

\* The pool state a queued execute_swap computation was computed against is the
\* pool's state now.
SwapInputsCurrent(comp) ==
    LET a == computations[comp].args
    IN  /\ pool # NoAccount
        /\ a[4].u64 = pool.reserve_a
        /\ a[5].u64 = pool.reserve_b
        /\ a[8].u16 = pool.fee_rate

\* C24 as stated: a verified result computed against pool state that has since
\* changed is never settled: every swap settlement is of a computation whose
\* reserves and fee rate are the pool's at delivery.
C24_StaleResultNotSettled ==
    [][ (VerifiedDelivery("execute_swap_callback") /\ last'.err = "Ok")
          => SwapInputsCurrent(last'.comp) ]_vars

\* A swap queued against an empty pool has settled after add_liquidity changed
\* the reserves, with neither an underflow nor a zero denominator involved.
C24_Witness ==
    /\ last.op = "execute_swap_callback"
    /\ last.err = "Ok"
    /\ computations[last.comp] # NoAccount
    /\ computations[last.comp].status = "settled"
    /\ LET a == computations[last.comp].args
       IN  /\ swap_defined(to_arcis(a[3].ct), a[4].u64, a[5].u64, a[7].b, a[8].u16)
           /\ a[4].u64 = 0
    /\ pool.reserve_a > 0
    /\ \E i \in 1..Len(events) : events[i].name = "LiquidityAdded"

\* The computation account holds a computation that a delivery has settled or
\* rejected.
Terminal(comp) ==
    /\ computations[comp] # NoAccount
    /\ computations[comp].status \in {"settled", "rejected"}

\* C25: an identifier is submitted, then settled by a verified delivery or
\* rejected by a delivery that fails; settled and rejected are terminal: the
\* record never changes again, and a later delivery for it fails, changes no
\* durable state and emits no event.
C25_Lifecycle ==
    [][ /\ \A comp \in CompAddrs :
              /\ computations[comp] = NoAccount
                   => \/ computations'[comp] = NoAccount
                      \/ /\ computations'[comp].status = "queued"
                         /\ Runs(SubmitOps)
                         /\ last'.comp = comp
                         /\ last'.err = "Ok"
              /\ Outstanding(comp)
                   => \/ computations'[comp] = computations[comp]
                      \/ /\ computations'[comp] =
                               [computations[comp] EXCEPT !.status = "settled"]
                         /\ VerifiedDelivery(last'.op)
                         /\ last'.op \in CallbackOps
                         /\ last'.comp = comp
                         /\ last'.err = "Ok"
                      \/ /\ computations'[comp] =
                               [computations[comp] EXCEPT !.status = "rejected"]
                         /\ Runs(CallbackOps)
                         /\ last'.comp = comp
                         /\ last'.err \in {"AbortedComputation", BusinessError(last'.op)}
                         /\ RecordsUnchanged
                         /\ events' = events
              /\ Terminal(comp) => computations'[comp] = computations[comp]
        /\ (Runs(CallbackOps) /\ Terminal(last'.comp))
              => /\ last'.err \notin {"Ok", "AbortedComputation", BusinessError(last'.op)}
                 /\ NothingChanged ]_vars

\* A cancellation that was rejected received a later delivery of a result that
\* verifies and reports success; the delivery failed and the computation is
\* still rejected.
C25_Witness ==
    /\ last.op = "cancel_order_callback"
    /\ last.err = "NotFound"
    /\ computations[last.comp] # NoAccount
    /\ computations[last.comp].status = "rejected"
    /\ SignatureVerifies(last.output, last.comp)
    /\ last.output.payload.tag = "Ok"
    /\ last.output.payload.out.success
    /\ events = << >>

\* The delivery of this step reached the body of the callback `last'.op`: the
\* computation is outstanding, of the callback's circuit, and the accounts pass.
DeliveryEntered ==
    /\ Runs(CallbackOps)
    /\ Outstanding(last'.comp)
    /\ computations[last'.comp].ix = CircuitOf(last'.op)
    /\ CallbackAccountsPass(last'.op, last'.acct)

\* The payload reports success, for the circuits that report it.
ReportsSuccess(op, payload) ==
    payload.tag = "Ok" /\ (op # "match_orders_callback" => payload.out.success)

\* C26: a result is verified against the cluster key active at delivery, not the
\* one active at submission: a result signed under any other key, the
\* submission-time key after a rotation included, is rejected with
\* AbortedComputation and no event, and a successful result signed under the key
\* active at delivery is accepted whatever key the computation was queued under.
C26_VerifiedAgainstCurrentKey ==
    [][ DeliveryEntered
          => /\ last'.output.sig.key # cluster_key
                  => /\ last'.err = "AbortedComputation"
                     /\ computations'[last'.comp].status = "rejected"
                     /\ RecordsUnchanged
                     /\ events' = events
             /\ (/\ SignatureVerifies(last'.output, last'.comp)
                 /\ ReportsSuccess(last'.op, last'.output.payload))
                  => /\ last'.err = "Ok"
                     /\ computations'[last'.comp].status = "settled" ]_vars

\* A swap was queued under key 1, the cluster key was rotated to 2, and the
\* cluster's successful result signed under key 1 was delivered and rejected.
C26_Witness ==
    /\ last.op = "execute_swap_callback"
    /\ last.err = "AbortedComputation"
    /\ computations[last.comp] # NoAccount
    /\ computations[last.comp].cluster = 1
    /\ computations[last.comp].status = "rejected"
    /\ cluster_key = 2
    /\ last.output.sig = [key |-> 1, comp |-> last.comp, payload |-> last.output.payload]
    /\ last.output.payload \in Evaluate(computations[last.comp])
    /\ last.output.payload.tag = "Ok"
    /\ last.output.payload.out.success

\* A swap was queued under key 1, the cluster key was rotated to 2, and the
\* cluster's successful result signed under key 2 was delivered and settled.
RotatedKeyResultAccepted ==
    /\ last.op = "execute_swap_callback"
    /\ last.err = "Ok"
    /\ computations[last.comp] # NoAccount
    /\ computations[last.comp].cluster = 1
    /\ computations[last.comp].status = "settled"
    /\ cluster_key = 2
    /\ last.output.sig.key = 2

----------------------------------------------------------------------------
(* Properties of the pool's reserves and of the swap arithmetic.           *)

\* C27: the pool's reserves are never negative, a created pool stays, its
\* reserves change only in a successful add_liquidity or a verified successful
\* swap settlement, and reserve_a * reserve_b never decreases from one state to
\* the next.
C27_ReservesInvariant ==
    [][ /\ pool # NoAccount => pool' # NoAccount
        /\ pool' # NoAccount => pool'.reserve_a >= 0 /\ pool'.reserve_b >= 0
        /\ (pool = NoAccount /\ pool' # NoAccount)
              => pool'.reserve_a * pool'.reserve_b = 0
        /\ pool # NoAccount
              => /\ pool'.reserve_a * pool'.reserve_b >= pool.reserve_a * pool.reserve_b
                 /\ (pool'.reserve_a # pool.reserve_a \/ pool'.reserve_b # pool.reserve_b)
                      => \/ Runs({"add_liquidity"}) /\ last'.err = "Ok"
                         \/ /\ VerifiedDelivery("execute_swap_callback")
                            /\ last'.err = "Ok" ]_vars

\* Liquidity was added twice, the second time to non-empty reserves, and then a
\* swap was queued: the reserves are the sums of the amounts added.
C27_Witness ==
    /\ pool # NoAccount
    /\ pool.reserve_a = 5000
    /\ pool.reserve_b = 2000
    /\ last.op = "execute_swap"
    /\ last.err = "Ok"
    /\ Len(events) = 2

\* The swap formula on the inputs of the evaluation in q, over the naturals:
\* amount_in * fee_rate, amount_in - amount_in * fee_rate / 10000, and the
\* numerator, denominator and quotient they give.
FormulaFeeProduct == NatMulSmall(q.amount_in, q.fee_rate, 0)
FormulaAmountAfterFee ==
    NatSub(q.amount_in, NatDivSmall(FormulaFeeProduct, BPS_DENOMINATOR).quot, 0)
FormulaNumerator ==
    NatMul(FormulaAmountAfterFee, swap_reserve_out(q.reserve_a, q.reserve_b, q.is_a_to_b))
FormulaDenominator ==
    NatAdd(swap_reserve_in(q.reserve_a, q.reserve_b, q.is_a_to_b), FormulaAmountAfterFee, 0)
FormulaAmountOut == NatDivRem(FormulaNumerator, FormulaDenominator).quot

\* x and y are the same natural number.
NatSame(x, y) == NatLeq(x, y) /\ NatLeq(y, x)

\* C28 as stated: for u64 inputs and a 16-bit fee rate for which the formula's
\* denominator is non-zero, none of amount_in * fee_rate, amount_in_after_fee *
\* reserve_out and reserve_in + amount_in_after_fee wraps or aborts, and the
\* 64-bit values the circuit computes are those of the formula over the naturals.
C28_NoWrap ==
    (q.circuit = "execute_swap_u64" /\ ~NatIsZero(FormulaDenominator))
       => /\ ~q.fee_product.overflow
          /\ ~q.numerator.overflow
          /\ ~q.denominator.overflow
          /\ NatSame(q.fee_product.value, FormulaFeeProduct)
          /\ NatSame(q.amount_in_after_fee.value, FormulaAmountAfterFee)
          /\ NatSame(q.numerator.value, FormulaNumerator)
          /\ NatSame(q.denominator.value, FormulaDenominator)
          /\ \A o \in q.outputs :
                o.tag = "Ok" /\ NatSame(o.out.amount_out, FormulaAmountOut)

\* amount_in = 2^64 - 1 at 30 bps with reserves of 4000: amount_in * fee_rate is
\* 30 * 2^64 - 30, which leaves the range; the evaluation panics or goes on with
\* the low 64 bits, 2^64 - 30, and then reveals an amount_out of 0 where the
\* formula gives 3999.
C28_Witness ==
    /\ q.circuit = "execute_swap_u64"
    /\ q.amount_in = U64_MAX
    /\ q.fee_rate = 30
    /\ q.reserve_a = to_le_bytes(4000, 8)
    /\ q.reserve_b = to_le_bytes(4000, 8)
    /\ ~NatIsZero(FormulaDenominator)
    /\ q.fee_product.overflow
    /\ q.fee_product.value = <<226, 255, 255, 255, 255, 255, 255, 255>>
    /\ Abort \in q.outputs
    /\ \E o \in q.outputs : o.tag = "Ok" /\ ~NatSame(o.out.amount_out, FormulaAmountOut)

\* The queued execute_swap computation divides by zero: its fee does not exceed
\* amount_in and reserve_in + amount_in_after_fee is 0.
ZeroDenominator(comp) ==
    LET a == computations[comp].args
        amount_in == to_arcis(a[3].ct)
        fee == swap_fee(amount_in, a[8].u16)
    IN  /\ fee <= amount_in
        /\ swap_reserve_in(a[4].u64, a[5].u64, a[7].b) + (amount_in - fee) = 0

\* C29 as stated: a swap whose denominator is 0 ends in a defined error outcome,
\* never in a panic: every output of the circuit for it is a result with
\* success = false, and no result the cluster produces for it settles, emits an
\* event or changes a record.
C29_ZeroDenominatorRejected ==
    /\ [](\A comp \in CompAddrs :
            (/\ computations[comp] # NoAccount
             /\ computations[comp].ix = "execute_swap"
             /\ ZeroDenominator(comp))
            => \A o \in Evaluate(computations[comp]) :
                  o.tag = "Ok" /\ ~o.out.success)
    /\ [][ (/\ Runs({"execute_swap_callback"})
             /\ Outstanding(last'.comp)
             /\ computations[last'.comp].ix = "execute_swap"
             /\ ZeroDenominator(last'.comp)
             /\ last'.output \in ClusterOutputs(last'.comp))
              => /\ last'.err # "Ok"
                 /\ RecordsUnchanged
                 /\ events' = events ]_vars

\* A swap of amount_in 0 against the zero reserves of a fresh pool panicked in
\* the circuit; the cluster's signed abort was delivered and the handler failed
\* with AbortedComputation, with no event and the pool as it was.
C29_Witness ==
    /\ last.op = "execute_swap_callback"
    /\ last.err = "AbortedComputation"
    /\ computations[last.comp] # NoAccount
    /\ computations[last.comp].ix = "execute_swap"
    /\ ZeroDenominator(last.comp)
    /\ Evaluate(computations[last.comp]) = {Abort}
    /\ last.output = Signed(cluster_key, last.comp, Abort, Abort)
    /\ to_arcis(computations[last.comp].args[3].ct) = 0
    /\ pool.reserve_a = 0 /\ pool.reserve_b = 0
    /\ events = << >>

\* C30 as stated: every pool init_pool creates has a fee rate of at most 10000
\* basis points, so that for every swap queued against it the fee does not exceed
\* amount_in and amount_in - fee does not underflow.
C30_FeeNeverExceedsAmount ==
    /\ pool # NoAccount => pool.fee_rate <= BPS_DENOMINATOR
    /\ \A comp \in CompAddrs :
          (computations[comp] # NoAccount /\ computations[comp].ix = "execute_swap")
             => LET a == computations[comp].args
                IN  swap_fee(to_arcis(a[3].ct), a[8].u16) <= to_arcis(a[3].ct)

\* init_pool(20000) created the pool and a swap of amount_in 1000 is queued
\* against it: the fee is 2000.
C30_Witness ==
    /\ pool # NoAccount
    /\ pool.fee_rate = 20000
    /\ last.op = "execute_swap"
    /\ last.err = "Ok"
    /\ Outstanding(last.comp)
    /\ LET a == computations[last.comp].args
       IN  /\ to_arcis(a[3].ct) = 1000
           /\ a[8].u16 = 20000
           /\ swap_fee(to_arcis(a[3].ct), a[8].u16) = 2000

\* The quote cannot drain or devalue the pool: amount_out is at most reserve_out,
\* below it when not zero, and (reserve_in + amount_in) * (reserve_out -
\* amount_out) is at least reserve_in * reserve_out.  All four are byte sequences.
QuoteKeepsPool(amount_in, reserve_in, reserve_out, amount_out) ==
    /\ NatLeq(amount_out, reserve_out)
    /\ ~NatIsZero(amount_out) => ~NatLeq(reserve_out, amount_out)
    /\ NatLeq(NatMul(reserve_in, reserve_out),
              NatMul(NatAdd(reserve_in, amount_in, 0),
                     NatSub(reserve_out, amount_out, 0)))

\* C31 as stated: every quote execute_swap reveals for a fee rate of at most
\* 10000 and reserve_in > 0 keeps the pool, for the evaluations on small inputs
\* and for those on full-width u64 inputs.
C31_QuoteKeepsPool ==
    /\ (q.circuit = "execute_swap" /\ q.fee_rate <= BPS_DENOMINATOR /\ QuoteReserveIn > 0)
          => \A o \in q.outputs :
                o.tag = "Ok"
                  => QuoteKeepsPool(to_le_bytes(q.amount_in, 8),
                                    to_le_bytes(QuoteReserveIn, 8),
                                    to_le_bytes(swap_reserve_out(q.reserve_a, q.reserve_b,
                                                                 q.is_a_to_b), 8),
                                    o.out.amount_out)
    /\ (/\ q.circuit = "execute_swap_u64"
        /\ q.fee_rate <= BPS_DENOMINATOR
        /\ ~NatIsZero(swap_reserve_in(q.reserve_a, q.reserve_b, q.is_a_to_b)))
          => \A o \in q.outputs :
                o.tag = "Ok"
                  => QuoteKeepsPool(q.amount_in,
                                    swap_reserve_in(q.reserve_a, q.reserve_b, q.is_a_to_b),
                                    swap_reserve_out(q.reserve_a, q.reserve_b, q.is_a_to_b),
                                    o.out.amount_out)

\* amount_in = 1000 at fee rate 0 with reserve_in = 2^64 - 1 and reserve_out =
\* 4000: reserve_in + amount_in_after_fee leaves the range.  A build with
\* overflow checks panics there; a wrapping build goes on with 999 and reveals
\* an amount_out of 4004.
C31_Witness ==
    /\ q.circuit = "execute_swap_u64"
    /\ q.amount_in = to_le_bytes(1000, 8)
    /\ q.fee_rate = 0
    /\ q.is_a_to_b
    /\ q.reserve_a = U64_MAX
    /\ q.reserve_b = to_le_bytes(4000, 8)
    /\ q.denominator = [value |-> to_le_bytes(999, 8), overflow |-> TRUE]
    /\ q.outputs = {Abort, Ok([amount_in |-> q.amount_in,
                               amount_out |-> to_le_bytes(4004, 8)])}

----------------------------------------------------------------------------
(* Properties of balance-account binding, liquidity and order privacy.     *)

\* The payer whose create_balance_account or deposit_funds request queued the
\* computation: the plaintext_pubkey argument of its argument list.
RequestOwner(comp) == computations[comp].args[2].pk

\* C32 as stated: a result settles only against the balance account of the
\* request it is bound to, and the owner named in BalanceCreated or
\* FundsDeposited is that request's owner.
C32_SettlesAgainstOwnAccount ==
    [][ (Runs({"create_balance_callback", "deposit_callback"}) /\ last'.err = "Ok")
          => /\ last'.acct = RequestOwner(last'.comp)
             /\ events'[Len(events')].owner = RequestOwner(last'.comp) ]_vars

\* The verified result of alice's create_balance_account request was delivered
\* with bob's balance account and settled: BalanceCreated names bob.
C32_Witness ==
    /\ last.op = "create_balance_callback"
    /\ last.err = "Ok"
    /\ SignatureVerifies(last.output, last.comp)
    /\ RequestOwner(last.comp) = "alice"
    /\ last.acct = "bob"
    /\ events = <<[name |-> "BalanceCreated", owner |-> "bob"]>>

\* C33: a successful add_liquidity increases reserve_a by exactly amount_a and
\* reserve_b by exactly amount_b, neither sum exceeding 2^64 - 1, changes no
\* other field of the pool and emits one LiquidityAdded with the two amounts; an
\* add_liquidity that does not succeed, as when a sum would exceed 2^64 - 1 or a
\* token transfer fails, leaves the pool and the token accounts as they were and
\* emits nothing.
C33_AddLiquidityExact ==
    [][ Runs({"add_liquidity"})
          => /\ last'.err = "Ok"
                  => /\ Len(events') = Len(events) + 1
                     /\ LET added == events'[Len(events')]
                        IN  /\ events' = Append(events, added)
                            /\ added.name = "LiquidityAdded"
                            /\ FitsU64(NatAdd(pool.reserve_a, added.amount_a, 0))
                            /\ FitsU64(NatAdd(pool.reserve_b, added.amount_b, 0))
                            /\ NatPad(pool'.reserve_a, 9)
                                  = NatAdd(pool.reserve_a, added.amount_a, 0)
                            /\ NatPad(pool'.reserve_b, 9)
                                  = NatAdd(pool.reserve_b, added.amount_b, 0)
                            /\ pool' = [pool EXCEPT !.reserve_a = pool'.reserve_a,
                                                    !.reserve_b = pool'.reserve_b]
             /\ last'.err # "Ok"
                  => /\ pool' = pool
                     /\ events' = events
                     /\ token_accounts' = token_accounts ]_vars

\* After one addition of (1000, 0) to reserves (2^40, 2^64 - 1) by a provider
\* holding 2^64 - 1 of each token, an addition whose two transfers the provider
\* could pay was refused because reserve_b would exceed 2^64 - 1: the reserves
\* are still (2^40 + 1000, 2^64 - 1), the token accounts those after the first
\* addition, and the one event is that of the first addition.
C33_Witness ==
    /\ last.op = "add_liquidity"
    /\ last.err = "Panic"
    /\ pool.reserve_a = <<232, 3, 0, 0, 0, 1, 0, 0>>
    /\ pool.reserve_b = U64_MAX
    /\ token_accounts = TokenAccounts(NatSub(U64_MAX, to_le_bytes(1000, 8), 0),
                                      U64_MAX, to_le_bytes(1000, 8),
                                      to_le_bytes(0, 8))
    /\ events = <<[name |-> "LiquidityAdded", amount_a |-> to_le_bytes(1000, 8),
                   amount_b |-> to_le_bytes(0, 8)]>>

\* A provider holding 500 of token A asked to add (1000, 1000) to reserves
\* (4000, 4000): the transfer of token A failed, and the reserves, the token
\* accounts and the event log are as they were.
TransferRefused ==
    /\ last.op = "add_liquidity"
    /\ last.err = "TokenInsufficientFunds"
    /\ pool.reserve_a = to_le_bytes(4000, 8)
    /\ pool.reserve_b = to_le_bytes(4000, 8)
    /\ token_accounts.user_token_a = to_le_bytes(500, 8)
    /\ events = <<>>

\* Prices and sizes a request could have held instead of its own.
OtherPrices == {0, 5, 7}
OtherSizes == {0, 3, 9}

\* C34: what add_order makes public depends on the encrypted price and size only
\* through their validity.  The queued arguments carry them as ciphertexts; a
\* revealed output is one that every request with another price or size of the
\* same validity, and the same side and owner, reveals for the same random draw;
\* the delivery's outcome and its OrderAdded event are determined by the
\* revealed output alone, and the order book is not written.
C34_OrderDetailsStayPrivate ==
    [][ /\ (Runs({"add_order"}) /\ last'.err = "Ok")
              => /\ computations'[last'.comp].args[3].k = "encrypted_bytes"
                 /\ computations'[last'.comp].args[4].k = "encrypted_bytes"
                 /\ RecordsUnchanged
                 /\ events' = events
        /\ (/\ VerifiedDelivery("add_order_callback")
            /\ last'.output \in ClusterOutputs(last'.comp))
              => LET a == computations[last'.comp].args
                     valid == to_arcis(a[3].ct) > 0 /\ to_arcis(a[4].ct) > 0
                     revealed == last'.output.payload
                 IN  /\ \A price \in OtherPrices, size \in OtherSizes :
                           ((price > 0 /\ size > 0) = valid)
                              => revealed \in circuits_add_order(price, size, a[5].b, a[6].pk)
                     /\ order_book' = order_book
                     /\ IF revealed.out.success
                        THEN /\ last'.err = "Ok"
                             /\ events' = Append(events,
                                   [name |-> "OrderAdded",
                                    order_id |-> revealed.out.order_id])
                        ELSE /\ last'.err = "OrderFailed"
                             /\ events' = events ]_vars

\* An order of price 5 and size 3 has settled: the one event is OrderAdded with
\* the id the circuit drew.
C34_Witness ==
    /\ last.op = "add_order_callback"
    /\ last.err = "Ok"
    /\ computations[last.comp] # NoAccount
    /\ to_arcis(computations[last.comp].args[3].ct) = 5
    /\ to_arcis(computations[last.comp].args[4].ct) = 3
    /\ last.output \in {Signed(cluster_key, last.comp, o, o) :
                           o \in Evaluate(computations[last.comp])}
    /\ events = <<[name |-> "OrderAdded", order_id |-> 2]>>

============================================================================
